---- MODULE Spec2Model ----
(***************************************************************************)
(* A model of python-prompt-manager: PromptRegistry, the PromptManager     *)
(* cache and retrieval path, and the LocalFileSource / OpenAIPromptSource  *)
(* adapters.                                                               *)
(*                                                                         *)
(* Text is a sequence of tokens.  A token is either literal text or a      *)
(* "{key}" replacement field; str.format() scans the text it is given, so  *)
(* a field token is a field wherever it came from.  Optional values are    *)
(* sequences of length at most one: None is << >>, a value v is <<v>>.     *)
(***************************************************************************)
EXTENDS Integers, Sequences, FiniteSets, TLC

VARIABLES
    config,          \* PromptManager.config (PromptManagerConfig)
    prompts,         \* PromptRegistry._prompts: name -> PromptConfig
    sources_in_use,  \* PromptRegistry._sources_in_use
    sources,         \* PromptManager._sources: source type -> adapter state
    cache,           \* PromptManager._cache: cache key -> (content, timestamp)
    files,           \* the filesystem: path -> text of the file
    now,             \* time.time()
    last,            \* what the last call did and returned
    threads,         \* the threads that call the Manager: where each one is
    locks,           \* PromptManager._lock and PromptRegistry._lock (RLock)
    constructed      \* source type -> adapter instances the threads constructed

vars == <<config, prompts, sources_in_use, sources, cache, files, now, last,
          threads, locks, constructed>>

\* the state of the calling threads
concurrency == <<threads, locks, constructed>>

\* ------------------------------------------------------------------ bounds
MaxTime == 4

\* the calls the threads make, all together
MaxOps == 3

\* the largest attempt budget (openai_max_retries) a Manager is built with
MaxRetries == 3

\* ------------------------------------------------------------ optionals
None == << >>
Some(v) == <<v>>

\* ------------------------------------------------------------------ text
Keys == {"x", "y"}

FieldOf(key) == IF key = "x" THEN "{x}" ELSE "{y}"

IsField(tok) == tok \in {FieldOf(k) : k \in Keys}

KeyOf(tok) == CHOOSE k \in Keys : FieldOf(k) = tok

\* the keys of the replacement fields str.format() finds in content
FieldKeys(content) ==
    {KeyOf(content[i]) : i \in {j \in DOMAIN content : IsField(content[j])}}

RECURSIVE Substitute(_, _)
Substitute(content, variables) ==
    IF content = << >> THEN << >>
    ELSE (IF IsField(Head(content))
             THEN variables[KeyOf(Head(content))]
             ELSE <<Head(content)>>)
         \o Substitute(Tail(content), variables)

\* a formatting that fills the slots whose key is supplied and leaves the rest
RECURSIVE FormatSupplied(_, _)
FormatSupplied(content, variables) ==
    IF content = << >> THEN << >>
    ELSE (IF IsField(Head(content)) /\ KeyOf(Head(content)) \in DOMAIN variables
             THEN variables[KeyOf(Head(content))]
             ELSE <<Head(content)>>)
         \o FormatSupplied(Tail(content), variables)

\* content.format(**variables) under "except KeyError: return content"
FormatOrKeep(content, variables) ==
    IF FieldKeys(content) \subseteq DOMAIN variables
    THEN Substitute(content, variables)
    ELSE content

\* PromptManager._apply_variables
ApplyVariables(content, variables) ==
    IF DOMAIN variables = {} THEN content
    ELSE FormatOrKeep(content, variables)

\* LocalFileSource._substitute_variables
SubstituteVariables(content, variables) == FormatOrKeep(content, variables)

NoVariables == << >>

VariableChoices ==
    { NoVariables,
      [k \in {"x"} |-> <<"A">>],
      [k \in {"x"} |-> <<"B">>] }

DefaultText == <<"D">>

DefaultChoices == {None, Some(DefaultText)}

\* variable mappings with plain-text values: none, one key, both keys
PlainVariableChoices ==
    { NoVariables,
      [k \in {"x"} |-> <<"A">>],
      [k \in {"y"} |-> <<"B">>],
      [k \in {"x", "y"} |-> IF k = "x" THEN <<"A">> ELSE <<"B">>] }

\* a mapping whose value for x is itself a replacement field:
\* {"x": "{y}", "y": "Z"}
NestedVariables == [k \in {"x", "y"} |-> IF k = "x" THEN <<"{y}">> ELSE <<"Z">>]

NestedVariableChoices == {NoVariables, NestedVariables, [k \in {"x"} |-> <<"A">>]}

\* defaults that carry a replacement field
TemplateDefaultChoices == {None, Some(<<"D ", "{y}">>)}

\* ----------------------------------------------------------------- paths
\* pathlib.Path as (absolute?, directory parts, stem parts, suffix)
Rel(stem, suffix) == [abs |-> FALSE, dir |-> << >>, stem |-> stem, suffix |-> suffix]

\* Path(s) for the identifiers the model uses
Path(s) ==
    CASE s = "f1.txt"      -> Rel(<<"f1">>, ".txt")
      [] s = "f2.txt"      -> Rel(<<"f2">>, ".txt")
      [] s = "missing.txt" -> Rel(<<"missing">>, ".txt")
      [] s = "/abs/f4.txt" -> [abs |-> TRUE, dir |-> <<"abs">>, stem |-> <<"f4">>,
                               suffix |-> ".txt"]
      [] OTHER             -> Rel(<<s>>, "")

CwdDir == <<"cwd">>
PromptsDir == <<"p">>

Abs(dir, p) == [abs |-> TRUE, dir |-> dir \o p.dir, stem |-> p.stem, suffix |-> p.suffix]

\* a file: its text and its modification time (st_mtime)
File(text, mtime) == [text |-> text, mtime |-> mtime]

InitialFiles ==
    (Abs(PromptsDir, Path("f1.txt")) :> File(<<"Hi ", "{x}">>, 0))
 @@ (Abs(PromptsDir, Path("f2.txt")) :> File(<<"Yo ", "{x}">>, 0))
 @@ (Abs(PromptsDir, Rel(<<"f1", "v2">>, ".txt")) :> File(<<"Hi2 ", "{x}">>, 0))

\* a prompts directory whose file references two keys
TemplateFiles ==
    (Abs(PromptsDir, Path("f1.txt")) :> File(<<"Hi ", "{x}", " ", "{y}">>, 0))


\* ---------------------------------------------------------- configuration
SourceTypes == {"local", "openai"}

Names == {"a"}

\* version arguments: None or a version string
VersionChoices == {None, Some("v2")}

\* PromptConfig.source_config: the keys the package reads
SourceConfig(prompt_id, version, path) ==
    [prompt_id |-> prompt_id, version |-> version, path |-> path]

\* PromptConfig
PromptConfig(name, source, source_config, cache_ttl) ==
    [name |-> name, source |-> source, source_config |-> source_config,
     cache_ttl |-> cache_ttl]

SourceConfigChoices(source) ==
    IF source = "local"
    THEN { SourceConfig(None, None, Some("f1.txt")),
           SourceConfig(Some("f2.txt"), None, None),
           SourceConfig(Some("missing.txt"), None, None) }
    ELSE { SourceConfig(Some("pm1"), None, None) }

CacheTtlChoices == {None, Some(0), Some(1), Some(3)}

\* PromptManagerConfig; prompts are the prompts configured with the Manager
ManagerConfig(cache_enabled, cache_ttl, api_key, prompts_dir) ==
    [cache_enabled |-> cache_enabled, cache_ttl |-> cache_ttl,
     openai_api_key |-> api_key, openai_max_retries |-> 3,
     prompts_dir |-> prompts_dir, validate_on_startup |-> "env_only",
     prompts |-> << >>]

ManagerConfigChoices ==
    { ManagerConfig(TRUE, 2, Some("sk"), Some(PromptsDir)),
      ManagerConfig(TRUE, 0, Some("sk"), Some(PromptsDir)),
      ManagerConfig(FALSE, 2, None, Some(PromptsDir)) }

\* Managers with credentials that differ in openai_max_retries
RetryConfigChoices ==
    { [ManagerConfig(TRUE, 2, Some("sk"), Some(PromptsDir))
          EXCEPT !.openai_max_retries = n] : n \in 0..MaxRetries }

\* --------------------------------------------------------------- results
\* what a call returned: status "ok" with a value, or the exception class
Ok(value) == [status |-> "ok", value |-> value]
Raise(exc) == [status |-> exc, value |-> << >>]

\* the direct base classes of the exception classes the package raises
ExceptionBases(cls) ==
    CASE cls = "PromptManagerError"           -> {"Exception"}
      [] cls = "ConfigurationError"           -> {"PromptManagerError"}
      [] cls = "ValidationError"              -> {"PromptManagerError"}
      [] cls = "SourceError"                  -> {"PromptManagerError"}
      [] cls = "SourceNotFoundError"          -> {"SourceError"}
      [] cls = "SourceConnectionError"        -> {"SourceError"}
      [] cls = "PromptError"                  -> {"PromptManagerError"}
      [] cls = "PromptNotFoundError"          -> {"PromptError"}
      [] cls = "PromptRetrievalError"         -> {"PromptError"}
      [] cls = "RegistryError"                -> {"PromptManagerError"}
      [] cls = "PromptAlreadyRegisteredError" -> {"RegistryError"}
      [] cls = "PromptNotRegisteredError"     -> {"RegistryError"}
      [] cls = "OpenAIError"                  -> {"SourceError"}
      [] cls = "OpenAIConfigError"            -> {"OpenAIError", "ConfigurationError"}
      [] cls = "OpenAIRateLimitError"         -> {"OpenAIError"}
      [] cls = "OpenAITimeoutError"           -> {"OpenAIError"}
      [] cls = "AttributeError"               -> {"Exception"}
      [] OTHER                                -> {}

\* isinstance(e, cls) for an exception e of class exc
RECURSIVE IsInstance(_, _)
IsInstance(exc, cls) ==
    exc = cls \/ \E base \in ExceptionBases(exc) : IsInstance(base, cls)

\* the history variable: the last call, what it returned, whether the
\* Manager cache served it (hit), whether source.get_prompt was invoked
\* (fetched), whether a registration replaced an entry (replaced), the keys
\* the call removed from the Manager cache (dropped, c being the cache it
\* leaves), the time of the return, the prompts a validation checked for
\* existence (checked) and the prompts its error message names (named), what
\* each responses.create call of the fetch did (attempts), the attempt whose
\* exception a PromptRetrievalError of the retry loop wraps (cause, else 0),
\* for a call made on a LocalFileSource itself the _read_file calls it made
\* (reads), the prompt_id, version and path source.get_prompt was called
\* with (args), and the call made before this one
Outcome(op, name, version, result, hit, fetched, replaced, c, t) ==
    [op |-> op, name |-> name, version |-> version,
     status |-> result.status, value |-> result.value,
     hit |-> hit, fetched |-> fetched, replaced |-> replaced,
     dropped |-> DOMAIN cache \ DOMAIN c, time |-> t,
     calls |-> 0, sleeps |-> << >>, checked |-> {}, named |-> {},
     attempts |-> << >>, cause |-> 0, reads |-> 0, args |-> None,
     prev |-> [op |-> last.op, dropped |-> last.dropped]]

\* the same for a call that reached an adapter: the responses.create calls
\* the adapter made (calls) and the time.sleep arguments it slept, in order
OutcomeIO(op, name, version, result, hit, fetched, replaced, c, t, calls, sleeps) ==
    [Outcome(op, name, version, result, hit, fetched, replaced, c, t)
        EXCEPT !.calls = calls, !.sleeps = sleeps]

NoCall ==
    [op |-> "init", name |-> "", version |-> "", status |-> "ok",
     value |-> << >>, hit |-> FALSE, fetched |-> FALSE, replaced |-> FALSE,
     dropped |-> {}, time |-> 0, calls |-> 0, sleeps |-> << >>,
     checked |-> {}, named |-> {}, attempts |-> << >>, cause |-> 0,
     reads |-> 0, args |-> None, prev |-> [op |-> "init", dropped |-> {}]]

\* --------------------------------------------------------------- threads
Threads == {"t1", "t2"}

\* an RLock nobody holds
FreeLock == [owner |-> "", count |-> 0]

NoLocks == [manager |-> FreeLock, registry |-> FreeLock]

NoneConstructed == [s \in SourceTypes |-> 0]

\* a thread that is not inside a call: the calls it has begun so far (ops)
\* and, for each registration it has finished, what it was and how it ended.
\* Of a registration in progress a thread records whether the name was
\* unregistered when the call began (fresh) and, when the other thread was
\* inside a registration of the same name at that moment, the place that
\* registration takes in the other thread's log (rival, else 0).  Of a get
\* in progress a thread records whether a clear_cache of the other thread
\* has returned since its source.get_prompt began (cleared).
IdleThread(ops, log) ==
    [pc |-> "idle", op |-> "", name |-> "", arg |-> None, pcfg |-> None,
     network |-> << >>, content |-> None, fresh |-> FALSE, rival |-> 0,
     cleared |-> FALSE,
     todo |-> << >>, errors |-> {}, ops |-> ops, log |-> log]

NoThreads == [t \in Threads |-> IdleThread(0, << >>)]

\* -------------------------------------------------------------- registry
\* a register that records the source type before it looks for a duplicate
RegisterAddsBeforeCheck(ps, siu, prompt_config, overwrite) ==
    IF prompt_config.name \in DOMAIN ps /\ ~overwrite
    THEN [prompts |-> ps, sources_in_use |-> siu \cup {prompt_config.source},
          result |-> Raise("PromptAlreadyRegisteredError")]
    ELSE [prompts |-> [n \in DOMAIN ps \cup {prompt_config.name} |->
                          IF n = prompt_config.name THEN prompt_config ELSE ps[n]],
          sources_in_use |-> siu \cup {prompt_config.source},
          result |-> Ok(<< >>)]

\* PromptRegistry.register: the state after the call and what it raised
RegistryRegisterResult(ps, siu, prompt_config, overwrite) ==
    IF prompt_config.name \in DOMAIN ps /\ ~overwrite
    THEN [prompts |-> ps, sources_in_use |-> siu,
          result |-> Raise("PromptAlreadyRegisteredError")]
    ELSE [prompts |-> [n \in DOMAIN ps \cup {prompt_config.name} |->
                          IF n = prompt_config.name THEN prompt_config ELSE ps[n]],
          sources_in_use |-> siu \cup {prompt_config.source},
          result |-> Ok(<< >>)]

\* PromptRegistry.register_from_dict: every exception leaves as
\* ConfigurationError
RegisterFromDictResult(ps, siu, name, source, source_config, cache_ttl, overwrite) ==
    LET r == RegistryRegisterResult(ps, siu,
                 PromptConfig(name, source, source_config, cache_ttl), overwrite)
    IN  IF r.result.status = "ok" THEN r
        ELSE [r EXCEPT !.result = Raise("ConfigurationError")]

\* PromptRegistry._update_sources_in_use
UpdateSourcesInUse(ps) == {ps[n].source : n \in DOMAIN ps}

\* PromptRegistry.register, called on manager.registry
RegistryRegister(name, source, source_config, cache_ttl, overwrite) ==
    LET r == RegistryRegisterResult(prompts, sources_in_use,
                 PromptConfig(name, source, source_config, cache_ttl), overwrite)
    IN  /\ prompts' = r.prompts
        /\ sources_in_use' = r.sources_in_use
        /\ last' = Outcome("registry.register", name, "", r.result, FALSE, FALSE,
                            r.result.status = "ok" /\ name \in DOMAIN prompts,
                            cache, now)
        /\ UNCHANGED <<config, sources, cache, files, now>>
        /\ UNCHANGED concurrency

\* PromptManager.register_prompt
RegisterPrompt(name, source, source_config, cache_ttl, overwrite) ==
    LET r == RegisterFromDictResult(prompts, sources_in_use, name, source,
                                    source_config, cache_ttl, overwrite)
    IN  /\ prompts' = r.prompts
        /\ sources_in_use' = r.sources_in_use
        /\ last' = Outcome("register_prompt", name, "", r.result, FALSE, FALSE,
                            r.result.status = "ok" /\ name \in DOMAIN prompts,
                            cache, now)
        /\ UNCHANGED <<config, sources, cache, files, now>>
        /\ UNCHANGED concurrency

\* PromptRegistry.remove
RegistryRemove(name) ==
    /\ IF name \notin DOMAIN prompts
       THEN /\ last' = Outcome("registry.remove", name, "",
                               Raise("PromptNotRegisteredError"), FALSE, FALSE,
                               FALSE, cache, now)
            /\ UNCHANGED <<prompts, sources_in_use>>
       ELSE LET ps == [n \in DOMAIN prompts \ {name} |-> prompts[n]]
            IN  /\ prompts' = ps
                /\ sources_in_use' = UpdateSourcesInUse(ps)
                /\ last' = Outcome("registry.remove", name, "", Ok(<< >>), FALSE, FALSE,
                                        FALSE, cache, now)
    /\ UNCHANGED <<config, sources, cache, files, now>>
    /\ UNCHANGED concurrency

\* PromptRegistry.get, called on manager.registry
RegistryGetEntry(name) ==
    /\ last' = Outcome("registry.get", name, "",
                        IF name \in DOMAIN prompts THEN Ok(Some(prompts[name]))
                        ELSE Raise("PromptNotRegisteredError"),
                        FALSE, FALSE, FALSE, cache, now)
    /\ UNCHANGED <<config, prompts, sources_in_use, sources, cache, files, now>>
    /\ UNCHANGED concurrency

\* PromptRegistry.clear
RegistryClear ==
    /\ prompts' = << >>
    /\ sources_in_use' = {}
    /\ last' = Outcome("registry.clear", "", "", Ok(<< >>), FALSE, FALSE, FALSE,
                     cache, now)
    /\ UNCHANGED <<config, sources, cache, files, now>>
    /\ UNCHANGED concurrency

\* ------------------------------------------------------ LocalFileSource
\* directories that exist
ExistingDirs == {PromptsDir, CwdDir}

\* LocalFileSource.SUPPORTED_EXTENSIONS, a set
SUPPORTED_EXTENSIONS == {".txt", ".text", ".json", ".yaml", ".yml"}

\* the orders in which a process can iterate that set
ExtensionOrders ==
    {o \in [1..Cardinality(SUPPORTED_EXTENSIONS) -> SUPPORTED_EXTENSIONS] :
        \A i, j \in DOMAIN o : i # j => o[i] # o[j]}

\* the order of the process the Manager runs in; the directories a Manager
\* reads here hold no file that differs from another in its extension only
ExtensionOrder == <<".txt", ".text", ".json", ".yaml", ".yml">>

\* LocalFileSource.__init__; extensions is the order in which this process
\* iterates SUPPORTED_EXTENSIONS
NewLocalSource(source_config) ==
    [config |-> source_config, initialized |-> FALSE, base_dir |-> None,
     client |-> FALSE, cache |-> << >>, file_mtimes |-> << >>,
     extensions |-> ExtensionOrder]

\* LocalFileSource.initialize under BasePromptSource._ensure_initialized
LocalInitialize(src) ==
    IF src.initialized THEN [result |-> Ok(<< >>), src |-> src]
    ELSE IF src.config.base_dir # None
              /\ src.config.base_dir[1] \notin ExistingDirs
         THEN [result |-> Raise("ConfigurationError"),
               src |-> [src EXCEPT !.base_dir = src.config.base_dir]]
         ELSE [result |-> Ok(<< >>),
               src |-> [src EXCEPT !.base_dir = src.config.base_dir,
                                   !.initialized = TRUE]]

\* (base / path).resolve(), or path.resolve() against the working directory
ResolveAgainst(base_dir, path) ==
    IF path.abs THEN path
    ELSE IF base_dir # None THEN Abs(base_dir[1], path)
    ELSE Abs(CwdDir, path)

\* the first supported extension, in iteration order, whose file exists
RECURSIVE FirstExisting(_, _, _)
FirstExisting(fs, file_path, exts) ==
    IF exts = << >> THEN file_path
    ELSE IF [file_path EXCEPT !.suffix = Head(exts)] \in DOMAIN fs
         THEN [file_path EXCEPT !.suffix = Head(exts)]
         ELSE FirstExisting(fs, file_path, Tail(exts))

\* a resolution that looks for the versions of a file before it looks at
\* the override
ResolveVersionFirst(exts, base_dir, fs, prompt_id, version, override_path) ==
    LET file_path == ResolveAgainst(base_dir, Path(prompt_id))
        versioned_path ==
            [file_path EXCEPT !.stem = file_path.stem \o <<version[1]>>]
    IN  IF version # None /\ versioned_path \in DOMAIN fs THEN versioned_path
        ELSE IF override_path # None
             THEN ResolveAgainst(base_dir, Path(override_path[1]))
        ELSE file_path

\* LocalFileSource._resolve_file_path
ResolveFilePath(exts, base_dir, fs, prompt_id, version, override_path) ==
    IF override_path # None
    THEN ResolveAgainst(base_dir, Path(override_path[1]))
    ELSE LET file_path == ResolveAgainst(base_dir, Path(prompt_id))
             versioned_path ==
                 [file_path EXCEPT !.stem = file_path.stem \o <<version[1]>>]
             version_dir ==
                 [file_path EXCEPT !.dir = file_path.dir \o <<version[1]>>]
         IN  IF version # None /\ versioned_path \in DOMAIN fs
                 THEN versioned_path
             ELSE IF version # None /\ version_dir \in DOMAIN fs
                 THEN version_dir
             ELSE IF file_path.suffix = ""
                 THEN FirstExisting(fs, file_path, exts)
             ELSE file_path

\* LocalFileSource._is_file_modified
IsFileModified(src, fs, file_path) ==
    IF file_path \notin DOMAIN src.file_mtimes THEN TRUE
    ELSE IF file_path \notin DOMAIN fs THEN TRUE
    ELSE fs[file_path].mtime > src.file_mtimes[file_path]

\* "if self._auto_reload and str(file_path) in self._cache" and its body:
\* the adapter without the entry of a modified file
DropIfModified(src, fs, file_path) ==
    IF /\ src.config.auto_reload
       /\ file_path \in DOMAIN src.cache
       /\ IsFileModified(src, fs, file_path)
    THEN [src EXCEPT !.cache =
             [q \in DOMAIN src.cache \ {file_path} |-> src.cache[q]]]
    ELSE src

\* self._cache[cache_key] = content, and the modification time under
\* auto_reload
StoreContent(src, fs, file_path, content) ==
    [src EXCEPT
        !.cache = [q \in DOMAIN src.cache \cup {file_path} |->
                      IF q = file_path THEN content ELSE src.cache[q]],
        !.file_mtimes =
            IF src.config.auto_reload
            THEN [q \in DOMAIN src.file_mtimes \cup {file_path} |->
                     IF q = file_path THEN fs[file_path].mtime
                     ELSE src.file_mtimes[q]]
            ELSE src.file_mtimes]

\* LocalFileSource.get_prompt from "Return cached content if available" on;
\* reads counts the _read_file calls
ReadOrCached(src, fs, file_path, variables) ==
    IF file_path \in DOMAIN src.cache /\ ~src.config.auto_reload
         THEN [result |-> Ok(src.cache[file_path]), src |-> src, reads |-> 0]
    ELSE IF file_path \notin DOMAIN fs
         THEN [result |-> Raise("PromptNotFoundError"), src |-> src, reads |-> 1]
    ELSE IF DOMAIN variables # {}
         THEN [result |-> Ok(SubstituteVariables(fs[file_path].text, variables)),
               src |-> StoreContent(src, fs, file_path,
                          SubstituteVariables(fs[file_path].text, variables)),
               reads |-> 1]
    ELSE [result |-> Ok(fs[file_path].text),
          src |-> StoreContent(src, fs, file_path, fs[file_path].text),
          reads |-> 1]

\* LocalFileSource.get_prompt once the adapter is initialized
GetInitialized(src, fs, file_path, variables) ==
    ReadOrCached(DropIfModified(src, fs, file_path), fs, file_path, variables)

\* LocalFileSource.get_prompt: what it returns or raises, and the adapter
\* state it leaves
LocalGetPrompt(src0, fs, prompt_id, version, path, variables) ==
    LET init == LocalInitialize(src0)
    IN  IF init.result.status # "ok"
        THEN [result |-> init.result, src |-> init.src, reads |-> 0]
        ELSE GetInitialized(init.src, fs,
                            ResolveFilePath(init.src.extensions, init.src.base_dir,
                                            fs, prompt_id, version, path),
                            variables)

\* --------------------------------------------------- OpenAIPromptSource
\* the openai package is importable
HAS_OPENAI == TRUE

\* what the prompt store answers for (id, version) when the call succeeds
RemoteText(prompt_id, version) ==
    IF prompt_id = "pm1"
    THEN IF version = None THEN <<"Remote ", "{x}">> ELSE <<"Remote2 ", "{x}">>
    ELSE IF version = None THEN <<prompt_id, "{x}">>
    ELSE <<prompt_id, version[1], "{x}">>

\* what one responses.create call can do: answer with text, answer with an
\* empty text, or fail with a message of one of the classified kinds
NetworkResults == {"ok", "empty", "not found", "rate limit", "timeout", "error"}

\* OpenAIPromptSource.__init__
NewOpenAISource(source_config) ==
    [config |-> source_config, initialized |-> FALSE, base_dir |-> None,
     client |-> FALSE, cache |-> << >>]

\* OpenAIPromptSource.initialize under BasePromptSource._ensure_initialized
OpenAIInitialize(src) ==
    IF src.initialized THEN [result |-> Ok(<< >>), src |-> src]
    ELSE IF ~HAS_OPENAI THEN [result |-> Raise("ConfigurationError"), src |-> src]
    ELSE IF src.config.api_key = None \/ src.config.api_key = Some("")
         THEN [result |-> Raise("OpenAIConfigError"), src |-> src]
    ELSE [result |-> Ok(<< >>),
          src |-> [src EXCEPT !.client = TRUE, !.initialized = TRUE]]

\* a key that leaves the version out
KeyWithoutVersion(prompt_id, version) == prompt_id

\* cache_key = f"{prompt_id}:{version or 'latest'}"
AdapterCacheKey(prompt_id, version) ==
    prompt_id \o ":" \o (IF version = None \/ version = Some("")
                          THEN "latest" ELSE version[1])

\* a backoff that waits one second whatever the attempt
FixedBackoff(k) == 1

\* 2**attempt
RECURSIVE Pow2(_)
Pow2(k) == IF k <= 0 THEN 1 ELSE 2 * Pow2(k - 1)

\* a loop that never takes an attempt for its last
NeverLastAttempt(attempt, max_retries) == FALSE

\* the else of "if attempt < max_retries - 1"
LastAttempt(attempt, max_retries) == ~(attempt < max_retries - 1)

\* the retry loop of OpenAIPromptSource.get_prompt from a given attempt on:
\* network[attempt + 1] is what the call of that attempt does; cause is the
\* attempt (counted from 1) whose exception a PromptRetrievalError wraps
RECURSIVE RetryLoop(_, _, _, _, _, _)
RetryLoop(attempt, max_retries, network, text, calls, sleeps) ==
    IF attempt >= max_retries
    THEN [result |-> [status |-> "none", value |-> << >>],
          calls |-> calls, sleeps |-> sleeps, cause |-> 0]
    ELSE LET r == network[attempt + 1]
             final == LastAttempt(attempt, max_retries)
             raise(exc) == [result |-> Raise(exc), calls |-> calls + 1,
                            sleeps |-> sleeps,
                            cause |-> IF exc = "PromptRetrievalError"
                                      THEN attempt + 1 ELSE 0]
         IN  IF r = "ok" /\ text # << >>
                 THEN [result |-> Ok(text), calls |-> calls + 1, sleeps |-> sleeps,
                       cause |-> 0]
             ELSE IF r \in {"ok", "empty", "not found"}
                 THEN raise("PromptNotFoundError")
             ELSE IF r = "rate limit"
                 THEN IF final THEN raise("OpenAIRateLimitError")
                      ELSE RetryLoop(attempt + 1, max_retries, network, text,
                                     calls + 1, Append(sleeps, Pow2(attempt)))
             ELSE IF r = "timeout"
                 THEN IF final THEN raise("OpenAITimeoutError")
                      ELSE RetryLoop(attempt + 1, max_retries, network, text,
                                     calls + 1, sleeps)
             ELSE IF final THEN raise("PromptRetrievalError")
                  ELSE RetryLoop(attempt + 1, max_retries, network, text,
                                 calls + 1, Append(sleeps, 1))

RECURSIVE SumSeq(_)
SumSeq(q) == IF q = << >> THEN 0 ELSE Head(q) + SumSeq(Tail(q))

\* OpenAIPromptSource.get_prompt: what it returns or raises, the adapter
\* state it leaves, the network calls it made and the sleeps it took
OpenAIGetPrompt(src0, prompt_id, version, network) ==
    LET init == OpenAIInitialize(src0)
        src == init.src
        cache_key == AdapterCacheKey(prompt_id, version)
        loop == RetryLoop(0, src.config.max_retries, network,
                          RemoteText(prompt_id, version), 0, << >>)
    IN  IF init.result.status # "ok"
            THEN [result |-> init.result, src |-> src, calls |-> 0, sleeps |-> << >>,
                  cause |-> 0]
        ELSE IF cache_key \in DOMAIN src.cache
            THEN [result |-> Ok(src.cache[cache_key]), src |-> src,
                  calls |-> 0, sleeps |-> << >>, cause |-> 0]
        ELSE [result |-> loop.result,
              src |-> IF loop.result.status = "ok"
                      THEN [src EXCEPT !.cache =
                               [q \in DOMAIN src.cache \cup {cache_key} |->
                                   IF q = cache_key THEN loop.result.value
                                   ELSE src.cache[q]]]
                      ELSE src,
              calls |-> loop.calls, sleeps |-> loop.sleeps, cause |-> loop.cause]

\* -------------------------------------------------------- PromptManager
\* cache_key = f"{name}:{version or 'latest'}"
CacheKey(name, version) == <<name, IF version = None THEN "latest" ELSE version[1]>>

\* PromptManager._get_source_config
GetSourceConfig(cfg, source_type) ==
    IF source_type = "openai"
    THEN [api_key |-> cfg.openai_api_key, timeout |-> 30,
          max_retries |-> cfg.openai_max_retries]
    ELSE [base_dir |-> cfg.prompts_dir, encoding |-> "utf-8",
          auto_reload |-> FALSE]

\* source = source_class(source_config); self._sources[source_type] = source
ConstructSource(srcs, cfg, source_type) ==
    [t \in DOMAIN srcs \cup {source_type} |->
        IF t # source_type THEN srcs[t]
        ELSE IF t = "openai"
             THEN NewOpenAISource(GetSourceConfig(cfg, t))
             ELSE NewLocalSource(GetSourceConfig(cfg, t))]

\* PromptManager._get_source: _sources after the call
GetSource(srcs, cfg, source_type) ==
    IF source_type \in DOMAIN srcs THEN srcs
    ELSE ConstructSource(srcs, cfg, source_type)

\* a read that checks the age of an entry whatever the Manager's cache_ttl
GetCachedAlwaysChecks(cfg, c, cache_key, t) ==
    IF ~cfg.cache_enabled THEN [content |-> None, cache |-> c]
    ELSE IF cache_key \notin DOMAIN c THEN [content |-> None, cache |-> c]
    ELSE IF t - c[cache_key].timestamp > cfg.cache_ttl
         THEN [content |-> None,
               cache |-> [k \in DOMAIN c \ {cache_key} |-> c[k]]]
    ELSE [content |-> c[cache_key].content, cache |-> c]

\* a read that evicts every expired entry it comes across
GetCachedEvictsAll(cfg, c, cache_key, t) ==
    LET live == {k \in DOMAIN c :
                   ~(cfg.cache_ttl > 0 /\ t - c[k].timestamp > cfg.cache_ttl)}
    IN  IF ~cfg.cache_enabled THEN [content |-> None, cache |-> c]
        ELSE IF cache_key \notin live
             THEN [content |-> None, cache |-> [k \in live |-> c[k]]]
        ELSE [content |-> c[cache_key].content, cache |-> [k \in live |-> c[k]]]

\* PromptManager._get_cached: the content returned (None for a miss) and
\* _cache after the call
GetCached(cfg, c, cache_key, t) ==
    IF ~cfg.cache_enabled THEN [content |-> None, cache |-> c]
    ELSE IF cache_key \notin DOMAIN c THEN [content |-> None, cache |-> c]
    ELSE IF cfg.cache_ttl > 0 /\ t - c[cache_key].timestamp > cfg.cache_ttl
         THEN [content |-> None,
               cache |-> [k \in DOMAIN c \ {cache_key} |-> c[k]]]
    ELSE [content |-> c[cache_key].content, cache |-> c]

\* PromptManager._cache_prompt: _cache after the call
CachePrompt(cfg, c, cache_key, content, ttl, t) ==
    IF ~cfg.cache_enabled \/ ttl = 0 THEN c
    ELSE [k \in DOMAIN c \cup {cache_key} |->
             IF k = cache_key THEN [content |-> content, timestamp |-> t]
             ELSE c[k]]

\* a store that does not look at cache_enabled
StoreWhenDisabled(cfg, c, cache_key, content, returned, ttl, t) ==
    IF returned
    THEN [k \in DOMAIN c \cup {cache_key} |->
             IF k = cache_key THEN [content |-> content, timestamp |-> t]
             ELSE c[k]]
    ELSE c

\* a store that is also made when source.get_prompt raised
StoreAnyOutcome(cfg, c, cache_key, content, returned, ttl, t) ==
    IF cfg.cache_enabled
    THEN CachePrompt(cfg, c, cache_key, content, ttl, t)
    ELSE c

\* "if self.config.cache_enabled: ... self._cache_prompt(cache_key, content,
\* ttl)", reached when source.get_prompt returned
StoreFetched(cfg, c, cache_key, content, returned, ttl, t) ==
    IF returned /\ cfg.cache_enabled
    THEN CachePrompt(cfg, c, cache_key, content, ttl, t)
    ELSE c

\* ttl = prompt_config.cache_ttl or self.config.cache_ttl
Ttl(prompt_config, cfg) ==
    IF prompt_config.cache_ttl = None \/ prompt_config.cache_ttl = Some(0)
    THEN cfg.cache_ttl
    ELSE prompt_config.cache_ttl[1]

\* retrieval parameters in which what is configured wins over the call
ParamsConfiguredFirst(prompt_config, name, version, variables, path) ==
    [prompt_id |-> IF prompt_config.source_config.prompt_id # None
                   THEN prompt_config.source_config.prompt_id[1] ELSE name,
     version   |-> IF prompt_config.source_config.version # None
                   THEN prompt_config.source_config.version ELSE version,
     variables |-> variables,
     path      |-> IF prompt_config.source_config.path # None
                   THEN prompt_config.source_config.path ELSE path]

\* the retrieval_params of PromptManager.get_prompt
RetrievalParams(prompt_config, name, version, variables, path) ==
    [prompt_id |-> IF prompt_config.source_config.prompt_id # None
                   THEN prompt_config.source_config.prompt_id[1] ELSE name,
     version   |-> IF version # None THEN version
                   ELSE prompt_config.source_config.version,
     variables |-> variables,
     path      |-> IF path # None THEN path
                   ELSE prompt_config.source_config.path]

\* source.get_prompt(prompt_id, **retrieval_params) on the adapter src
SourceGetPrompt(src, source_type, fs, params, network) ==
    IF source_type = "openai"
    THEN OpenAIGetPrompt(src, params.prompt_id, params.version, network)
    ELSE LET r == LocalGetPrompt(src, fs, params.prompt_id, params.version,
                                 params.path, params.variables)
         IN  [result |-> r.result, src |-> r.src, calls |-> 0, sleeps |-> << >>,
              cause |-> 0]

\* the value get_prompt hands to the caller for a content (None included)
Return(content, variables) ==
    IF content = None
    THEN IF DOMAIN variables = {} THEN [status |-> "none", value |-> << >>]
         ELSE Raise("AttributeError")
    ELSE Ok(ApplyVariables(content[1], variables))

\* an "except Exception" that wraps what it caught in PromptRetrievalError
OrDefaultWrapped(result, default, variables) ==
    IF result.status \in {"ok", "none"} THEN result
    ELSE IF default = None THEN Raise("PromptRetrievalError")
    ELSE Ok(ApplyVariables(default[1], variables))

\* "except Exception": the default when one was given, else the exception
OrDefault(result, default, variables) ==
    IF result.status \in {"ok", "none"} \/ default = None THEN result
    ELSE Ok(ApplyVariables(default[1], variables))

\* PromptManager.get_prompt(name, version, variables, default, path=...)
\* network: what each responses.create call of this fetch does
GetPrompt(name, version, variables, default, path, network) ==
    LET cache_key == CacheKey(name, version)
        cached == GetCached(config, cache, cache_key, now)
    IN  IF cached.content # None
        THEN /\ last' = Outcome("get", name, cache_key[2],
                            OrDefault(Return(cached.content, variables),
                                      default, variables), TRUE, FALSE, FALSE,
                            cached.cache, now)
             /\ cache' = cached.cache
             /\ UNCHANGED <<config, prompts, sources_in_use, sources, files, now>>
             /\ UNCHANGED concurrency
        ELSE IF name \notin DOMAIN prompts
        THEN /\ last' = Outcome("get", name, cache_key[2],
                            OrDefault(Raise("PromptNotRegisteredError"),
                                      default, variables), FALSE, FALSE, FALSE,
                            cached.cache, now)
             /\ cache' = cached.cache
             /\ UNCHANGED <<config, prompts, sources_in_use, sources, files, now>>
             /\ UNCHANGED concurrency
        ELSE LET prompt_config == prompts[name]
                 srcs == GetSource(sources, config, prompt_config.source)
                 params == RetrievalParams(prompt_config, name, version,
                                           variables, path)
                 fetch == SourceGetPrompt(srcs[prompt_config.source],
                              prompt_config.source, files, params, network)
                 t == now + SumSeq(fetch.sleeps)
                 content == IF fetch.result.status = "ok"
                            THEN Some(fetch.result.value) ELSE None
                 returned == fetch.result.status \in {"ok", "none"}
                 stored == StoreFetched(config, cached.cache, cache_key, content,
                                        returned, Ttl(prompt_config, config), t)
             IN  /\ t <= MaxTime
                 /\ now' = t
                 /\ sources' = [srcs EXCEPT ![prompt_config.source] = fetch.src]
                 /\ cache' = stored
                 /\ last' = [OutcomeIO("get", name, cache_key[2],
                                OrDefault(IF returned THEN Return(content, variables)
                                          ELSE fetch.result, default, variables),
                                FALSE, TRUE, FALSE, stored, t,
                                fetch.calls, fetch.sleeps)
                                EXCEPT !.attempts = SubSeq(network, 1, fetch.calls),
                                       !.cause = fetch.cause,
                                       !.args = Some([prompt_id |-> params.prompt_id,
                                                      version |-> params.version,
                                                      path |-> params.path])]
                 /\ UNCHANGED <<config, prompts, sources_in_use, files>>
                 /\ UNCHANGED concurrency

\* bool(s) for an optional string
Truthy(s) == s # None /\ s # Some("")

\* PromptManagerConfig.validate_sources: the errors it lists, each with the
\* configured prompt it is about ("" for the Manager's own)
ConfigValidateSources(cfg) ==
    LET has_openai == Truthy(cfg.openai_api_key)
        has_local == Truthy(cfg.prompts_dir)
        ps == cfg.prompts
    IN  (IF ~(has_openai \/ has_local)
         THEN {<<"", "No prompt sources configured">>} ELSE {})
        \cup {<<n, "OPENAI_API_KEY is not set">> :
                 n \in {m \in DOMAIN ps : ps[m].source = "openai" /\ ~has_openai}}
        \cup {<<n, "no prompt ID configured">> :
                 n \in {m \in DOMAIN ps : /\ ps[m].source = "openai"
                                          /\ ps[m].source_config.prompt_id = None}}
        \cup {<<n, "PROMPTS_DIR is not set">> :
                 n \in {m \in DOMAIN ps : ps[m].source = "local" /\ ~has_local}}
        \cup {<<n, "no path configured">> :
                 n \in {m \in DOMAIN ps : /\ ps[m].source = "local"
                                          /\ ps[m].source_config.path = None}}

\* PromptManagerConfig.validate(mode)
ConfigValidate(cfg, mode) ==
    IF mode = "none" THEN Ok(<< >>)
    ELSE IF ConfigValidateSources(cfg) # {} THEN Raise("ValidationError")
    ELSE Ok(<< >>)

\* PromptRegistry.validate_prompts(): the names its errors are about
RegistryValidatePrompts(ps) ==
    {n \in DOMAIN ps : ps[n].source = "openai" /\ ps[n].source_config.prompt_id = None}

\* LocalFileSource.validate_prompt_exists
LocalValidatePromptExists(src0, fs, prompt_id, version) ==
    LET init == LocalInitialize(src0)
    IN  [exists |-> /\ init.result.status = "ok"
                    /\ ResolveFilePath(init.src.extensions, init.src.base_dir,
                                       fs, prompt_id, version, None) \in DOMAIN fs,
         src |-> init.src, calls |-> 0, sleeps |-> << >>]

\* OpenAIPromptSource.validate_prompt_exists
OpenAIValidatePromptExists(src0, prompt_id, version, network) ==
    LET fetch == OpenAIGetPrompt(src0, prompt_id, version, network)
    IN  [exists |-> fetch.result.status \in {"ok", "none"},
         src |-> fetch.src, calls |-> fetch.calls, sleeps |-> fetch.sleeps]

\* one turn of the loop of PromptManager._validate_prompt_loading
ValidateOne(srcs0, name, network) ==
    LET prompt_config == prompts[name]
        srcs == GetSource(srcs0, config, prompt_config.source)
        prompt_id == IF prompt_config.source_config.prompt_id # None
                     THEN prompt_config.source_config.prompt_id[1] ELSE name
        version == prompt_config.source_config.version
        r == IF prompt_config.source = "openai"
             THEN OpenAIValidatePromptExists(srcs[prompt_config.source],
                                             prompt_id, version, network)
             ELSE LocalValidatePromptExists(srcs[prompt_config.source], files,
                                            prompt_id, version)
    IN  [exists |-> r.exists,
         sources |-> [srcs EXCEPT ![prompt_config.source] = r.src],
         sleeps |-> r.sleeps]

\* a loading validation that gives up at the first prompt that fails
RECURSIVE ValidatePromptLoadingFailFast(_, _, _, _)
ValidatePromptLoadingFailFast(srcs, order, networks, acc) ==
    IF order = << >> \/ acc.errors # {}
    THEN [sources |-> srcs, errors |-> acc.errors, checked |-> acc.checked,
          sleeps |-> acc.sleeps]
    ELSE LET one == ValidateOne(srcs, Head(order), networks[Head(order)])
         IN  ValidatePromptLoadingFailFast(one.sources, Tail(order), networks,
                 [errors |-> acc.errors \cup
                                (IF one.exists THEN {} ELSE {Head(order)}),
                  checked |-> acc.checked \cup {Head(order)},
                  sleeps |-> acc.sleeps \o one.sleeps])

\* PromptManager._validate_prompt_loading over the names still to visit:
\* the names checked, the names of the errors, the adapters and the sleeps
RECURSIVE ValidatePromptLoading(_, _, _, _)
ValidatePromptLoading(srcs, order, networks, acc) ==
    IF order = << >>
    THEN [sources |-> srcs, errors |-> acc.errors, checked |-> acc.checked,
          sleeps |-> acc.sleeps]
    ELSE LET one == ValidateOne(srcs, Head(order), networks[Head(order)])
         IN  ValidatePromptLoading(one.sources, Tail(order), networks,
                 [errors |-> acc.errors \cup
                                (IF one.exists THEN {} ELSE {Head(order)}),
                  checked |-> acc.checked \cup {Head(order)},
                  sleeps |-> acc.sleeps \o one.sleeps])

\* the orders in which a loop can visit the names of a set
Orders(S) ==
    {q \in [1..Cardinality(S) -> S] : \A i, j \in DOMAIN q : i # j => q[i] # q[j]}

\* PromptManager.validate(mode) when registry.list_prompts() is order;
\* networks[name] is what the network does while name is checked
ValidateInOrder(mode, order, networks) ==
    LET m == IF mode = None THEN config.validate_on_startup ELSE mode[1]
        registry_errors == RegistryValidatePrompts(prompts)
        loading == ValidatePromptLoading(sources, order, networks,
                       [errors |-> {}, checked |-> {}, sleeps |-> << >>])
        t == now + SumSeq(loading.sleeps)
        outcome(result, checked, named, time) ==
            [Outcome("validate", "", m, result, FALSE, FALSE, FALSE, cache, time)
                EXCEPT !.checked = checked, !.named = named]
    IN  /\ IF ConfigValidate(config, m).status # "ok"
           THEN /\ last' = outcome(Raise("ValidationError"), {}, {}, now)
                /\ UNCHANGED <<sources, now>>
           ELSE IF registry_errors # {}
           THEN /\ last' = outcome(Raise("ValidationError"), {},
                                   registry_errors, now)
                /\ UNCHANGED <<sources, now>>
           ELSE IF m = "load_test"
           THEN /\ t <= MaxTime
                /\ sources' = loading.sources
                /\ now' = t
                /\ last' = outcome(IF loading.errors # {}
                                   THEN Raise("ValidationError") ELSE Ok(<< >>),
                                   loading.checked, loading.errors, t)
           ELSE /\ last' = outcome(Ok(<< >>), {}, {}, now)
                /\ UNCHANGED <<sources, now>>
        /\ UNCHANGED <<config, prompts, sources_in_use, cache, files>>
        /\ UNCHANGED concurrency

\* PromptManager.validate(mode).  The registry's dict keeps its names in
\* insertion order, which prompts does not record: any order is taken.
Validate(mode, networks) ==
    \E order \in Orders(DOMAIN prompts) : ValidateInOrder(mode, order, networks)

\* a clear_cache that leaves the entries in place
ClearCacheKeepsEntries ==
    /\ cache' = cache
    /\ last' = Outcome("clear_cache", "", "", Ok(<< >>), FALSE, FALSE, FALSE,
                     cache, now)
    /\ UNCHANGED <<config, prompts, sources_in_use, sources, files, now>>
    /\ UNCHANGED concurrency

\* PromptManager.clear_cache
ClearCache ==
    /\ cache' = << >>
    /\ last' = Outcome("clear_cache", "", "", Ok(<< >>), FALSE, FALSE, FALSE,
                     << >>, now)
    /\ UNCHANGED <<config, prompts, sources_in_use, sources, files, now>>
    /\ UNCHANGED concurrency

\* time passes between two calls
Tick ==
    /\ now < MaxTime
    /\ now' = now + 1
    /\ UNCHANGED <<config, prompts, sources_in_use, sources, cache, files, last>>
    /\ UNCHANGED concurrency

\* ------------------------------------------------- the calls, step by step
\* The same calls made by threads.  A step is what a thread does between two
\* points where another thread can run: taking a lock, the statements under
\* the lock, and the adapter's I/O, which a thread enters (fetching), may
\* sleep in (sleeping) and leaves with the adapter's result.

\* a lock that excludes no thread
NeverExcludes(lk, l, t) == TRUE

\* RLock.acquire returns at once for a free lock and for its owner
CanAcquire(lk, l, t) == lk[l].owner \in {"", t}

Acquire(lk, l, t) == [lk EXCEPT ![l] = [owner |-> t, count |-> lk[l].count + 1]]

\* RLock.release
Release(lk, l, t) ==
    [lk EXCEPT ![l] = IF lk[l].count <= 1 THEN FreeLock
                      ELSE [owner |-> lk[l].owner, count |-> lk[l].count - 1]]

\* a _get_source that returns with the Manager lock still held
HoldThroughFetch(lk, t) == lk

\* the end of "with self._lock:" in PromptManager._get_source
ReleaseAfterGetSource(lk, t) == Release(lk, "manager", t)

\* the thread t moves to pc
Goto(t, pc) == threads' = [threads EXCEPT ![t].pc = pc]

RegisterOps == {"register", "register_prompt"}

\* the call of thread t returns or raises: status.  The log keeps the
\* registrations.
Finish(t, status) ==
    threads' = [threads EXCEPT ![t] =
                   IdleThread(threads[t].ops,
                       IF threads[t].op \in RegisterOps
                       THEN Append(threads[t].log,
                                [op |-> threads[t].op, name |-> threads[t].name,
                                 arg |-> threads[t].arg, status |-> status,
                                 fresh |-> threads[t].fresh,
                                 rival |-> threads[t].rival])
                       ELSE threads[t].log)]

\* the thread that is not t
Other(t) == CHOOSE u \in Threads : u # t

\* the calls the threads have begun
OpsBegun == threads["t1"].ops + threads["t2"].ops

\* thread t calls op(name, arg); network is what the network will do if
\* the call fetches
Begin(t, op, name, arg, network) ==
    /\ threads[t].pc = "idle"
    /\ OpsBegun < MaxOps
    /\ threads' = [threads EXCEPT ![t] =
           [pc |-> CASE op = "get" -> "get_cached"
                     [] op = "clear_cache" -> "clear_lock"
                     [] op = "validate" -> "validate_lock"
                     [] OTHER -> "register_lock",
            op |-> op, name |-> name, arg |-> arg, pcfg |-> None,
            network |-> network, content |-> None,
            fresh |-> op \in RegisterOps /\ name \notin DOMAIN prompts,
            rival |-> IF /\ op \in RegisterOps
                         /\ threads[Other(t)].pc # "idle"
                         /\ threads[Other(t)].op \in RegisterOps
                         /\ threads[Other(t)].name = name
                      THEN Len(threads[Other(t)].log) + 1 ELSE 0,
            cleared |-> FALSE,
            todo |-> << >>, errors |-> {},
            ops |-> threads[t].ops + 1, log |-> threads[t].log]]
    /\ UNCHANGED <<config, prompts, sources_in_use, sources, cache, files, now,
                   last, locks, constructed>>

\* get_prompt: _get_cached returns None at once when the cache is disabled,
\* else it takes the Manager lock
GetCachedLock(t) ==
    /\ threads[t].pc = "get_cached"
    /\ IF ~config.cache_enabled
       THEN Goto(t, "registry_lock") /\ UNCHANGED locks
       ELSE /\ CanAcquire(locks, "manager", t)
            /\ locks' = Acquire(locks, "manager", t)
            /\ Goto(t, "cache_read")
    /\ UNCHANGED <<config, prompts, sources_in_use, sources, cache, files, now,
                   last, constructed>>

\* get_prompt: the body of _get_cached under the lock, and the return of a hit
CacheRead(t) ==
    LET cached == GetCached(config, cache, CacheKey(threads[t].name, None), now)
    IN  /\ threads[t].pc = "cache_read"
        /\ cache' = cached.cache
        /\ locks' = Release(locks, "manager", t)
        /\ IF cached.content # None THEN Finish(t, "ok")
           ELSE Goto(t, "registry_lock")
        /\ UNCHANGED <<config, prompts, sources_in_use, sources, files, now,
                       last, constructed>>

\* registry.get takes the Registry lock
RegistryGetLock(t) ==
    /\ threads[t].pc = "registry_lock"
    /\ CanAcquire(locks, "registry", t)
    /\ locks' = Acquire(locks, "registry", t)
    /\ Goto(t, "registry_get")
    /\ UNCHANGED <<config, prompts, sources_in_use, sources, cache, files, now,
                   last, constructed>>

\* the body of registry.get; the loop of _validate_prompt_loading catches
\* what it raises and goes on
RegistryGet(t) ==
    /\ threads[t].pc = "registry_get"
    /\ locks' = Release(locks, "registry", t)
    /\ IF threads[t].name \notin DOMAIN prompts
       THEN IF threads[t].op = "validate"
            THEN threads' = [threads EXCEPT ![t].pc = "next_prompt",
                                ![t].errors = @ \cup {threads[t].name}]
            ELSE Finish(t, "PromptNotRegisteredError")
       ELSE threads' = [threads EXCEPT ![t].pc = "source_lock",
                                       ![t].pcfg = Some(prompts[threads[t].name])]
    /\ UNCHANGED <<config, prompts, sources_in_use, sources, cache, files, now,
                   last, constructed>>

\* _get_source takes the Manager lock
GetSourceLock(t) ==
    /\ threads[t].pc = "source_lock"
    /\ CanAcquire(locks, "manager", t)
    /\ locks' = Acquire(locks, "manager", t)
    /\ Goto(t, "source_check")
    /\ UNCHANGED <<config, prompts, sources_in_use, sources, cache, files, now,
                   last, constructed>>

\* _get_source: "if source_type not in self._sources"
GetSourceCheck(t) ==
    /\ threads[t].pc = "source_check"
    /\ IF threads[t].pcfg[1].source \in DOMAIN sources
       THEN Goto(t, "source_return")
       ELSE Goto(t, "source_create")
    /\ UNCHANGED <<config, prompts, sources_in_use, sources, cache, files, now,
                   last, locks, constructed>>

\* _get_source: the adapter is constructed and stored
GetSourceCreate(t) ==
    /\ threads[t].pc = "source_create"
    /\ sources' = ConstructSource(sources, config, threads[t].pcfg[1].source)
    /\ constructed' = [constructed EXCEPT ![threads[t].pcfg[1].source] = @ + 1]
    /\ Goto(t, "source_return")
    /\ UNCHANGED <<config, prompts, sources_in_use, cache, files, now, last, locks>>

\* _get_source returns; get_prompt calls source.get_prompt, and
\* _validate_prompt_loading source.validate_prompt_exists
GetSourceReturn(t) ==
    /\ threads[t].pc = "source_return"
    /\ locks' = ReleaseAfterGetSource(locks, t)
    /\ Goto(t, "fetching")
    /\ UNCHANGED <<config, prompts, sources_in_use, sources, cache, files, now,
                   last, constructed>>

\* what source.get_prompt of thread t does on the adapter as it is now
ThreadFetch(t) ==
    LET prompt_config == threads[t].pcfg[1]
    IN  SourceGetPrompt(sources[prompt_config.source], prompt_config.source, files,
            RetrievalParams(prompt_config, threads[t].name, None, NoVariables, None),
            threads[t].network)

\* what source.validate_prompt_exists of thread t does on the adapter as it
\* is now
ThreadExists(t) ==
    LET prompt_config == threads[t].pcfg[1]
        prompt_id == IF prompt_config.source_config.prompt_id # None
                     THEN prompt_config.source_config.prompt_id[1]
                     ELSE threads[t].name
        version == prompt_config.source_config.version
    IN  IF prompt_config.source = "openai"
        THEN OpenAIValidatePromptExists(sources[prompt_config.source],
                                        prompt_id, version, threads[t].network)
        ELSE LocalValidatePromptExists(sources[prompt_config.source], files,
                                       prompt_id, version)

\* the sleeps of the adapter call thread t is in
ThreadSleeps(t) ==
    IF threads[t].op = "validate" THEN ThreadExists(t).sleeps
    ELSE ThreadFetch(t).sleeps

\* the adapter call reaches a time.sleep of its retry loop
FetchSleep(t) ==
    /\ threads[t].pc = "fetching"
    /\ ThreadSleeps(t) # << >>
    /\ Goto(t, "sleeping")
    /\ UNCHANGED <<config, prompts, sources_in_use, sources, cache, files, now,
                   last, locks, constructed>>

\* source.validate_prompt_exists returns
ExistsDone(t) ==
    LET prompt_config == threads[t].pcfg[1]
        r == ThreadExists(t)
    IN  /\ threads[t].op = "validate"
        /\ \/ threads[t].pc = "fetching" /\ r.sleeps = << >>
           \/ threads[t].pc = "sleeping"
        /\ sources' = [sources EXCEPT ![prompt_config.source] = r.src]
        /\ threads' = [threads EXCEPT ![t].pc = "next_prompt",
                           ![t].errors = IF r.exists THEN @
                                         ELSE @ \cup {threads[t].name}]
        /\ UNCHANGED <<config, prompts, sources_in_use, cache, files, now, last,
                       locks, constructed>>

\* source.get_prompt returns or raises
FetchDone(t) ==
    LET prompt_config == threads[t].pcfg[1]
        fetch == ThreadFetch(t)
    IN  /\ threads[t].op = "get"
        /\ \/ threads[t].pc = "fetching" /\ fetch.sleeps = << >>
           \/ threads[t].pc = "sleeping"
        /\ sources' = [sources EXCEPT ![prompt_config.source] = fetch.src]
        /\ IF fetch.result.status \notin {"ok", "none"}
           THEN Finish(t, fetch.result.status)
           ELSE IF config.cache_enabled /\ Ttl(prompt_config, config) # 0
           THEN threads' = [threads EXCEPT ![t].pc = "store_lock",
                               ![t].content = IF fetch.result.status = "ok"
                                              THEN Some(fetch.result.value)
                                              ELSE None]
           ELSE Finish(t, fetch.result.status)
        /\ UNCHANGED <<config, prompts, sources_in_use, cache, files, now, last,
                       locks, constructed>>

\* validate: config.validate(mode), then registry.validate_prompts takes the
\* Registry lock
ValidatePromptsLock(t) ==
    /\ threads[t].pc = "validate_lock"
    /\ IF ConfigValidate(config, threads[t].arg[1]).status # "ok"
       THEN Finish(t, "ValidationError") /\ UNCHANGED locks
       ELSE /\ CanAcquire(locks, "registry", t)
            /\ locks' = Acquire(locks, "registry", t)
            /\ Goto(t, "validate_prompts")
    /\ UNCHANGED <<config, prompts, sources_in_use, sources, cache, files, now,
                   last, constructed>>

\* validate: the body of registry.validate_prompts, and what validate does
\* with its errors and with the mode
ValidatePromptsBody(t) ==
    /\ threads[t].pc = "validate_prompts"
    /\ locks' = Release(locks, "registry", t)
    /\ IF RegistryValidatePrompts(prompts) # {} THEN Finish(t, "ValidationError")
       ELSE IF threads[t].arg[1] = "load_test" THEN Goto(t, "list_lock")
       ELSE Finish(t, "ok")
    /\ UNCHANGED <<config, prompts, sources_in_use, sources, cache, files, now,
                   last, constructed>>

\* _validate_prompt_loading: registry.list_prompts takes the Registry lock
ListPromptsLock(t) ==
    /\ threads[t].pc = "list_lock"
    /\ CanAcquire(locks, "registry", t)
    /\ locks' = Acquire(locks, "registry", t)
    /\ Goto(t, "list_prompts")
    /\ UNCHANGED <<config, prompts, sources_in_use, sources, cache, files, now,
                   last, constructed>>

\* _validate_prompt_loading: the body of registry.list_prompts
ListPromptsBody(t) ==
    /\ threads[t].pc = "list_prompts"
    /\ locks' = Release(locks, "registry", t)
    /\ \E order \in Orders(DOMAIN prompts) :
          threads' = [threads EXCEPT ![t].pc = "next_prompt", ![t].todo = order]
    /\ UNCHANGED <<config, prompts, sources_in_use, sources, cache, files, now,
                   last, constructed>>

\* _validate_prompt_loading: the loop takes its next name, or ends and
\* raises one ValidationError when it has errors
NextPrompt(t) ==
    /\ threads[t].pc = "next_prompt"
    /\ IF threads[t].todo = << >>
       THEN Finish(t, IF threads[t].errors = {} THEN "ok" ELSE "ValidationError")
       ELSE threads' = [threads EXCEPT ![t].pc = "registry_lock",
                           ![t].name = Head(threads[t].todo),
                           ![t].todo = Tail(threads[t].todo)]
    /\ UNCHANGED <<config, prompts, sources_in_use, sources, cache, files, now,
                   last, locks, constructed>>

\* get_prompt: _cache_prompt takes the Manager lock
CacheStoreLock(t) ==
    /\ threads[t].pc = "store_lock"
    /\ CanAcquire(locks, "manager", t)
    /\ locks' = Acquire(locks, "manager", t)
    /\ Goto(t, "cache_store")
    /\ UNCHANGED <<config, prompts, sources_in_use, sources, cache, files, now,
                   last, constructed>>

\* get_prompt: the body of _cache_prompt, and the return
CacheStore(t) ==
    /\ threads[t].pc = "cache_store"
    /\ cache' = CachePrompt(config, cache, CacheKey(threads[t].name, None),
                            threads[t].content,
                            Ttl(threads[t].pcfg[1], config), now)
    /\ locks' = Release(locks, "manager", t)
    /\ Finish(t, "ok")
    /\ UNCHANGED <<config, prompts, sources_in_use, sources, files, now, last,
                   constructed>>

\* clear_cache takes the Manager lock
ClearCacheLock(t) ==
    /\ threads[t].pc = "clear_lock"
    /\ CanAcquire(locks, "manager", t)
    /\ locks' = Acquire(locks, "manager", t)
    /\ Goto(t, "clear")
    /\ UNCHANGED <<config, prompts, sources_in_use, sources, cache, files, now,
                   last, constructed>>

\* thread t is in a get that is inside source.get_prompt, or past it and
\* on its way to _cache_prompt
FetchBegun(t) ==
    /\ threads[t].op = "get"
    /\ threads[t].pc \in {"fetching", "sleeping", "store_lock"}

\* clear_cache: the body, and the return
ClearCacheBody(t) ==
    /\ threads[t].pc = "clear"
    /\ cache' = << >>
    /\ locks' = Release(locks, "manager", t)
    /\ threads' = [threads EXCEPT
                      ![t] = IdleThread(threads[t].ops, threads[t].log),
                      ![Other(t)].cleared = FetchBegun(Other(t))]
    /\ UNCHANGED <<config, prompts, sources_in_use, sources, files, now, last,
                   constructed>>

\* PromptRegistry.register takes the Registry lock
RegisterLock(t) ==
    /\ threads[t].pc = "register_lock"
    /\ CanAcquire(locks, "registry", t)
    /\ locks' = Acquire(locks, "registry", t)
    /\ Goto(t, "register_check")
    /\ UNCHANGED <<config, prompts, sources_in_use, sources, cache, files, now,
                   last, constructed>>

\* register: "if prompt_config.name in self._prompts and not overwrite";
\* register_prompt gets the error as a ConfigurationError
RegisterCheck(t) ==
    /\ threads[t].pc = "register_check"
    /\ IF threads[t].name \in DOMAIN prompts
       THEN /\ locks' = Release(locks, "registry", t)
            /\ Finish(t, IF threads[t].op = "register"
                         THEN "PromptAlreadyRegisteredError"
                         ELSE "ConfigurationError")
       ELSE Goto(t, "register_write") /\ UNCHANGED locks
    /\ UNCHANGED <<config, prompts, sources_in_use, sources, cache, files, now,
                   last, constructed>>

\* register: the entry and its source are written, and the call returns
RegisterWrite(t) ==
    LET r == RegistryRegisterResult(prompts, sources_in_use, threads[t].arg[1], TRUE)
    IN  /\ threads[t].pc = "register_write"
        /\ prompts' = r.prompts
        /\ sources_in_use' = r.sources_in_use
        /\ locks' = Release(locks, "registry", t)
        /\ Finish(t, "ok")
        /\ UNCHANGED <<config, sources, cache, files, now, last, constructed>>

\* ---------------------------------------------------------- specification
\* what the network does during one fetch
NetworkChoices ==
    { <<"ok", "ok", "ok">>,
      <<"not found", "ok", "ok">> }

Init ==
    /\ config \in ManagerConfigChoices
    /\ prompts = << >>
    /\ sources_in_use = {}
    /\ sources = << >>
    /\ cache = << >>
    /\ files = InitialFiles
    /\ now = 0
    /\ last = NoCall
    /\ threads = NoThreads
    /\ locks = NoLocks
    /\ constructed = NoneConstructed

\* One Manager and its registry, registrations from both source types,
\* retrievals with variables and defaults; no time passes.
Next ==
    \/ \E name \in Names, source \in SourceTypes, overwrite \in BOOLEAN :
          \E source_config \in SourceConfigChoices(source) :
             RegisterPrompt(name, source, source_config, None, overwrite)
    \/ \E name \in Names, overwrite \in BOOLEAN :
          RegistryRegister(name, "local", SourceConfig(None, None, Some("f1.txt")),
                           None, overwrite)
    \/ \E name \in Names : RegistryRemove(name)
    \/ RegistryClear
    \/ \E name \in Names, variables \in VariableChoices,
          default \in DefaultChoices, network \in NetworkChoices :
          GetPrompt(name, None, variables, default, None, network)
    \/ ClearCache

Spec == Init /\ [][Next]_vars

\* One Manager with one Filesystem prompt whose cache_ttl varies, and a
\* clock: the life of a cache entry.
NextCache ==
    \/ \E cache_ttl \in CacheTtlChoices, overwrite \in BOOLEAN :
          RegisterPrompt("a", "local", SourceConfig(None, None, Some("f1.txt")),
                         cache_ttl, overwrite)
    \/ \E version \in VersionChoices, default \in DefaultChoices :
          GetPrompt("a", version, NoVariables, default, None, <<"ok", "ok", "ok">>)
    \/ ClearCache
    \/ Tick

SpecCache == Init /\ [][NextCache]_vars

\* One Manager with one prompt, Filesystem or Remote API, whose content
\* references keys the variable mapping may or may not supply.
InitSubst ==
    /\ config \in ManagerConfigChoices
    /\ prompts = << >>
    /\ sources_in_use = {}
    /\ sources = << >>
    /\ cache = << >>
    /\ files = TemplateFiles
    /\ now = 0
    /\ last = NoCall
    /\ threads = NoThreads
    /\ locks = NoLocks
    /\ constructed = NoneConstructed

NextSubst ==
    \/ \E overwrite \in BOOLEAN :
          \/ RegisterPrompt("a", "local", SourceConfig(None, None, Some("f1.txt")),
                            None, overwrite)
          \/ RegisterPrompt("a", "openai", SourceConfig(Some("pm1"), None, None),
                            None, overwrite)
    \/ \E variables \in PlainVariableChoices, default \in TemplateDefaultChoices,
          network \in NetworkChoices :
          GetPrompt("a", None, variables, default, None, network)
    \/ ClearCache

SpecSubst == InitSubst /\ [][NextSubst]_vars

\* One Manager with the Filesystem prompt "Hi {x}" and callers whose values
\* may carry braces.
NextNested ==
    \/ \E overwrite \in BOOLEAN :
          RegisterPrompt("a", "local", SourceConfig(None, None, Some("f1.txt")),
                         None, overwrite)
    \/ \E version \in VersionChoices, variables \in NestedVariableChoices,
          default \in DefaultChoices :
          GetPrompt("a", version, variables, default, None, <<"ok", "ok", "ok">>)
    \/ ClearCache

SpecNested == Init /\ [][NextNested]_vars

\* the results after which the retry loop makes no further attempt
FinalResults == {"ok", "empty", "not found"}

\* what the network does during one fetch, one result per attempt; the
\* attempts after a final result are never made and are written "ok"
RetryNetworkChoices ==
    { n \in [1..MaxRetries -> NetworkResults] :
        \A i \in 1..(MaxRetries - 1) : n[i] \in FinalResults => n[i + 1] = "ok" }

\* the fetch whose first two attempts are rate limited and whose third
\* attempt succeeds
RateLimitedTwice ==
    [i \in 1..MaxRetries |-> IF i <= 2 THEN "rate limit" ELSE "ok"]

\* One Manager with one Remote API prompt, an attempt budget, a network that
\* fails in every classified way; time passes in the backoff sleeps.
InitRetry ==
    /\ config \in RetryConfigChoices
    /\ prompts = << >>
    /\ sources_in_use = {}
    /\ sources = << >>
    /\ cache = << >>
    /\ files = InitialFiles
    /\ now = 0
    /\ last = NoCall
    /\ threads = NoThreads
    /\ locks = NoLocks
    /\ constructed = NoneConstructed

NextRetry ==
    \/ \E overwrite \in BOOLEAN :
          RegisterPrompt("a", "openai", SourceConfig(Some("pm1"), None, None),
                         None, overwrite)
    \/ \E default \in DefaultChoices, network \in RetryNetworkChoices :
          GetPrompt("a", None, NoVariables, default, None, network)

SpecRetry == InitRetry /\ [][NextRetry]_vars

\* the names given to the registry: the empty string and a usual name
RegistryNames == {"", "a"}

\* the entry registered under a name for a source type
RegistryEntryChoice(source) ==
    IF source = "local" THEN SourceConfig(None, None, Some("f1.txt"))
    ELSE SourceConfig(Some("pm1"), None, None)

\* One registry and every operation on it, through the Manager
\* (register_prompt) and directly (manager.registry).
NextRegistry ==
    \/ \E name \in RegistryNames, source \in SourceTypes, overwrite \in BOOLEAN :
          RegisterPrompt(name, source, RegistryEntryChoice(source), None, overwrite)
    \/ \E name \in RegistryNames, source \in SourceTypes, overwrite \in BOOLEAN :
          RegistryRegister(name, source, RegistryEntryChoice(source), None, overwrite)
    \/ \E name \in RegistryNames : RegistryGetEntry(name)
    \/ \E name \in RegistryNames : RegistryRemove(name)
    \/ RegistryClear

SpecRegistry == Init /\ [][NextRegistry]_vars

\* ValidationMode arguments of validate(): None, or a mode
ModeChoices == {None, Some("none"), Some("env_only"), Some("load_test")}

ValidateNames == {"a", "b"}

\* source configurations whose prompt exists, does not exist, or (Remote
\* API) has no prompt_id
ValidateSourceConfigChoices(source) ==
    IF source = "local"
    THEN { SourceConfig(Some("f2.txt"), None, None),
           SourceConfig(Some("missing.txt"), None, None) }
    ELSE { SourceConfig(Some("pm1"), None, None),
           SourceConfig(None, None, None) }

\* One Manager, with or without an API key, a registry of up to two prompts
\* and validation in every mode.
InitValidate ==
    /\ config \in { ManagerConfig(TRUE, 2, Some("sk"), Some(PromptsDir)),
                     ManagerConfig(FALSE, 2, None, Some(PromptsDir)) }
    /\ prompts = << >>
    /\ sources_in_use = {}
    /\ sources = << >>
    /\ cache = << >>
    /\ files = InitialFiles
    /\ now = 0
    /\ last = NoCall
    /\ threads = NoThreads
    /\ locks = NoLocks
    /\ constructed = NoneConstructed

NextValidate ==
    \/ \E name \in ValidateNames, source \in SourceTypes :
          \E source_config \in ValidateSourceConfigChoices(source) :
             RegisterPrompt(name, source, source_config, None, TRUE)
    \/ \E name \in ValidateNames : RegistryRemove(name)
    \/ \E mode \in ModeChoices, networks \in [ValidateNames -> NetworkChoices] :
          Validate(mode, networks)

SpecValidate == InitValidate /\ [][NextValidate]_vars

\* source configurations with and without a prompt_id, a version, a path
ParamsSourceConfigChoices(source) ==
    IF source = "local"
    THEN { SourceConfig(Some("f2.txt"), None, None),
           SourceConfig(Some("f1.txt"), Some("v2"), None),
           SourceConfig(None, Some("v2"), Some("f1.txt")),
           SourceConfig(None, None, None) }
    ELSE { SourceConfig(Some("pm1"), Some("v2"), None),
           SourceConfig(None, None, None) }

\* One Manager with one prompt registered once; retrievals with and without
\* a version and a path given in the call.
NextParams ==
    \/ \E source \in SourceTypes :
          \E source_config \in ParamsSourceConfigChoices(source) :
             RegisterPrompt("a", source, source_config, None, FALSE)
    \/ \E version \in VersionChoices, path \in {None, Some("f2.txt")} :
          GetPrompt("a", version, NoVariables, None, path, <<"ok", "ok", "ok">>)
    \/ ClearCache

InitParams ==
    /\ config = ManagerConfig(TRUE, 2, Some("sk"), Some(PromptsDir))
    /\ prompts = << >>
    /\ sources_in_use = {}
    /\ sources = << >>
    /\ cache = << >>
    /\ files = InitialFiles
    /\ now = 0
    /\ last = NoCall
    /\ threads = NoThreads
    /\ locks = NoLocks
    /\ constructed = NoneConstructed

SpecParams == InitParams /\ [][NextParams]_vars

\* One Manager with a clock and one Filesystem prompt whose file exists or
\* not: what happens to the entries of the Manager cache.
NextEvict ==
    \/ \E source_config \in ValidateSourceConfigChoices("local") :
          RegisterPrompt("a", "local", source_config, None, TRUE)
    \/ \E version \in VersionChoices :
          GetPrompt("a", version, NoVariables, None, None, <<"ok", "ok", "ok">>)
    \/ Validate(Some("load_test"), [n \in ValidateNames |-> <<"ok", "ok", "ok">>])
    \/ ClearCache
    \/ Tick

SpecEvict == InitParams /\ [][NextEvict]_vars

\* Filesystem entries with a path, whose file exists or not, and with a
\* prompt_id only
LoadTestSourceConfigChoices ==
    { SourceConfig(None, None, Some("f1.txt")),
      SourceConfig(None, None, Some("missing.txt")),
      SourceConfig(Some("f2.txt"), None, Some("f1.txt")),
      SourceConfig(Some("f2.txt"), None, None),
      SourceConfig(Some("missing.txt"), None, None) }

\* One Manager with Filesystem prompts registered with and without a path,
\* retrievals and loading validation.
NextLoadTest ==
    \/ \E name \in ValidateNames, source_config \in LoadTestSourceConfigChoices :
          RegisterPrompt(name, "local", source_config, None, TRUE)
    \/ \E name \in ValidateNames :
          GetPrompt(name, None, NoVariables, None, None, <<"ok", "ok", "ok">>)
    \/ Validate(Some("load_test"), [n \in ValidateNames |-> <<"ok", "ok", "ok">>])
    \/ ClearCache

SpecLoadTest == InitParams /\ [][NextLoadTest]_vars

\* ------------------------------------- a LocalFileSource called directly
\* files under the prompts directory, the working directory and /abs: a
\* prompt with a versioned name and a version directory, a prompt stored
\* under several extensions, a prompt outside the base directory
ResolveFiles ==
    (Abs(PromptsDir, Path("f1.txt")) :> File(<<"Hi ", "{x}">>, 0))
 @@ (Abs(PromptsDir, Path("f2.txt")) :> File(<<"Yo ", "{x}">>, 0))
 @@ (Abs(PromptsDir, Rel(<<"f1", "v2">>, ".txt")) :> File(<<"Hi2 ", "{x}">>, 0))
 @@ (Abs(PromptsDir \o <<"v2">>, Path("f1.txt")) :> File(<<"Hi3 ", "{x}">>, 0))
 @@ (Abs(PromptsDir, Rel(<<"f3">>, ".txt")) :> File(<<"text">>, 0))
 @@ (Abs(PromptsDir, Rel(<<"f3">>, ".json")) :> File(<<"json">>, 0))
 @@ (Abs(PromptsDir, Rel(<<"f3">>, ".yaml")) :> File(<<"yaml">>, 0))
 @@ (Abs(CwdDir, Path("f1.txt")) :> File(<<"Cwd ", "{x}">>, 0))
 @@ (Path("/abs/f4.txt") :> File(<<"Abs ", "{x}">>, 0))

\* the file systems of the resolution runs: every file, no versioned name,
\* no plain-text f3
ResolveFileSystems ==
    { [q \in DOMAIN ResolveFiles \ gone |-> ResolveFiles[q]] :
        gone \in { {},
                   {Abs(PromptsDir, Rel(<<"f1", "v2">>, ".txt"))},
                   {Abs(PromptsDir, Rel(<<"f3">>, ".txt")),
                    Abs(PromptsDir \o <<"v2">>, Path("f1.txt"))} } }

ResolveIds == {"f1.txt", "f3", "/abs/f4.txt"}

\* a LocalFileSource built by the caller, initialized, in a process that
\* iterates SUPPORTED_EXTENSIONS in some order
InitResolve ==
    /\ config = ManagerConfig(TRUE, 2, None, Some(PromptsDir))
    /\ prompts = << >>
    /\ sources_in_use = {}
    /\ \E base_dir \in {None, Some(PromptsDir)}, order \in ExtensionOrders :
          sources = ("local" :>
             LocalInitialize(
                [NewLocalSource([base_dir |-> base_dir, encoding |-> "utf-8",
                                 auto_reload |-> FALSE])
                    EXCEPT !.extensions = order]).src)
    /\ cache = << >>
    /\ files \in ResolveFileSystems
    /\ now = 0
    /\ last = NoCall
    /\ threads = NoThreads
    /\ locks = NoLocks
    /\ constructed = NoneConstructed

\* source._resolve_file_path(prompt_id, version, override_path)
LocalResolveFilePath(prompt_id, version, override_path) ==
    LET src == sources["local"]
    IN  /\ last' = Outcome("local.resolve", prompt_id,
                            IF version = None THEN "" ELSE version[1],
                            Ok(Some(ResolveFilePath(src.extensions, src.base_dir,
                                        files, prompt_id, version, override_path))),
                            FALSE, FALSE, FALSE, cache, now)
        /\ UNCHANGED <<config, prompts, sources_in_use, sources, cache, files, now>>
        /\ UNCHANGED concurrency

NextResolve ==
    \E prompt_id \in ResolveIds, version \in VersionChoices,
       override_path \in {None, Some("f2.txt")} :
          LocalResolveFilePath(prompt_id, version, override_path)

SpecResolve == InitResolve /\ [][NextResolve]_vars

\* the most times a file is written
MaxWrites == 2

ReloadIds == {"f1.txt", "f2.txt"}

\* what a write can leave in a file
WrittenTexts == {<<"Hi ", "{x}">>, <<"New ", "{x}">>}

\* a LocalFileSource built by the caller with auto_reload on or off
InitReload ==
    /\ config = ManagerConfig(TRUE, 2, None, Some(PromptsDir))
    /\ prompts = << >>
    /\ sources_in_use = {}
    /\ \E auto_reload \in BOOLEAN :
          sources = ("local" :>
             NewLocalSource([base_dir |-> Some(PromptsDir), encoding |-> "utf-8",
                             auto_reload |-> auto_reload]))
    /\ cache = << >>
    /\ files = InitialFiles
    /\ now = 0
    /\ last = NoCall
    /\ threads = NoThreads
    /\ locks = NoLocks
    /\ constructed = NoneConstructed

\* source.get_prompt(prompt_id, variables=variables)
LocalSourceGet(prompt_id, variables) ==
    LET r == LocalGetPrompt(sources["local"], files, prompt_id, None, None,
                            variables)
    IN  /\ sources' = ("local" :> r.src)
        /\ last' = [Outcome("local.get", prompt_id, "", r.result, FALSE, FALSE,
                             FALSE, cache, now) EXCEPT !.reads = r.reads]
        /\ UNCHANGED <<config, prompts, sources_in_use, cache, files, now>>
        /\ UNCHANGED concurrency

\* another process writes a file: its text and a later modification time
WriteFile(file_path, text) ==
    /\ file_path \in DOMAIN files
    /\ files[file_path].mtime < MaxWrites
    /\ files' = [files EXCEPT ![file_path] = File(text, @.mtime + 1)]
    /\ UNCHANGED <<config, prompts, sources_in_use, sources, cache, now, last>>
    /\ UNCHANGED concurrency

NextReload ==
    \/ \E prompt_id \in ReloadIds, variables \in {NoVariables, [k \in {"x"} |-> <<"A">>]} :
          LocalSourceGet(prompt_id, variables)
    \/ \E prompt_id \in ReloadIds, text \in WrittenTexts :
          WriteFile(Abs(PromptsDir, Path(prompt_id)), text)

SpecReload == InitReload /\ [][NextReload]_vars

\* --------------------------- one adapter called by two threads, by steps
\* Threads call source.get_prompt on the one adapter of sources, as the
\* threads of a Manager do once _get_source has returned it.  The steps of
\* BasePromptSource._ensure_initialized are the read of _initialized, the
\* run of initialize and the write of _initialized.

\* the source type of the adapter
TheSource == CHOOSE s \in SourceTypes : s \in DOMAIN sources

\* initialize() of the adapter class
SourceInitialize(src, source_type) ==
    IF source_type = "openai" THEN OpenAIInitialize(src) ELSE LocalInitialize(src)

\* initialize has run to its end on the adapter: the client exists, the
\* base directory is resolved and is a directory
HasRun(src, source_type) ==
    IF source_type = "openai" THEN src.client
    ELSE src.base_dir # None /\ src.base_dir[1] \in ExistingDirs

\* get_prompt begins: "if not self._initialized"
EnsureCheck(t, prompt_id, network) ==
    /\ threads[t].pc = "idle"
    /\ OpsBegun < MaxOps
    /\ threads' = [threads EXCEPT ![t] =
           [IdleThread(threads[t].ops + 1, threads[t].log) EXCEPT
               !.pc = IF sources[TheSource].initialized THEN "call"
                      ELSE "initialize",
               !.op = "source.get", !.name = prompt_id, !.network = network]]
    /\ UNCHANGED <<config, prompts, sources_in_use, sources, cache, files, now,
                   last, locks, constructed>>

\* self.initialize()
RunInitialize(t) ==
    LET src == sources[TheSource]
        r == SourceInitialize([src EXCEPT !.initialized = FALSE], TheSource)
    IN  /\ threads[t].pc = "initialize"
        /\ sources' = [sources EXCEPT ![TheSource] =
                          [r.src EXCEPT !.initialized = src.initialized]]
        /\ IF r.result.status = "ok" THEN Goto(t, "set_initialized")
           ELSE Finish(t, r.result.status)
        /\ UNCHANGED <<config, prompts, sources_in_use, cache, files, now, last,
                       locks, constructed>>

\* self._initialized = True
SetInitialized(t) ==
    /\ threads[t].pc = "set_initialized"
    /\ sources' = [sources EXCEPT ![TheSource].initialized = TRUE]
    /\ Goto(t, "call")
    /\ UNCHANGED <<config, prompts, sources_in_use, cache, files, now, last,
                   locks, constructed>>

\* the rest of get_prompt, to its return
CallDone(t) ==
    LET r == SourceGetPrompt([sources[TheSource] EXCEPT !.initialized = TRUE],
                 TheSource, files,
                 [prompt_id |-> threads[t].name, version |-> None,
                  variables |-> NoVariables, path |-> None],
                 threads[t].network)
    IN  /\ threads[t].pc = "call"
        /\ sources' = [sources EXCEPT ![TheSource] =
                          [r.src EXCEPT !.initialized = sources[TheSource].initialized]]
        /\ Finish(t, r.result.status)
        /\ UNCHANGED <<config, prompts, sources_in_use, cache, files, now, last,
                       locks, constructed>>

\* an adapter of either class, built by the caller
InitInitialize ==
    /\ config = ManagerConfig(TRUE, 2, Some("sk"), Some(PromptsDir))
    /\ prompts = << >>
    /\ sources_in_use = {}
    /\ \/ \E api_key \in {None, Some("sk")} :
             sources = ("openai" :>
                NewOpenAISource([api_key |-> api_key, timeout |-> 30,
                                 max_retries |-> 2]))
       \/ \E base_dir \in {None, Some(PromptsDir), Some(<<"nowhere">>)} :
             sources = ("local" :>
                NewLocalSource([base_dir |-> base_dir, encoding |-> "utf-8",
                                auto_reload |-> FALSE]))
    /\ cache = << >>
    /\ files = InitialFiles
    /\ now = 0
    /\ last = NoCall
    /\ threads = NoThreads
    /\ locks = NoLocks
    /\ constructed = NoneConstructed

NextInitialize ==
    \E t \in Threads :
       \/ \E prompt_id \in {"f1.txt", "pm1"}, network \in NetworkChoices :
             EnsureCheck(t, prompt_id, network)
       \/ RunInitialize(t)
       \/ SetInitialized(t)
       \/ CallDone(t)

SpecInitialize == InitInitialize /\ [][NextInitialize]_vars

\* ---------------------------------- an OpenAIPromptSource called directly
\* prompt ids and versions, some of which format to the same cache key
OpenAIIds == {"pm1", "pm1:v2"}
OpenAIVersionChoices == {None, Some("latest"), Some("v2:latest")}

\* what the network does during one get_prompt of an adapter that makes at
\* most two attempts
OpenAINetworkChoices ==
    { <<"ok", "ok">>, <<"error", "ok">>, <<"not found", "ok">>,
      <<"empty", "ok">>, <<"timeout", "rate limit">> }

\* an OpenAIPromptSource built by the caller, with and without an API key
InitOpenAI ==
    /\ config = ManagerConfig(TRUE, 2, Some("sk"), None)
    /\ prompts = << >>
    /\ sources_in_use = {}
    /\ \E api_key \in {None, Some("sk")} :
          sources = ("openai" :>
             NewOpenAISource([api_key |-> api_key, timeout |-> 30,
                              max_retries |-> 2]))
    /\ cache = << >>
    /\ files = << >>
    /\ now = 0
    /\ last = NoCall
    /\ threads = NoThreads
    /\ locks = NoLocks
    /\ constructed = NoneConstructed

\* source.get_prompt(prompt_id, version)
OpenAISourceGet(prompt_id, version, network) ==
    LET r == OpenAIGetPrompt(sources["openai"], prompt_id, version, network)
    IN  /\ sources' = ("openai" :> r.src)
        /\ last' = OutcomeIO("openai.get", prompt_id,
                              IF version = None THEN "" ELSE version[1],
                              r.result, FALSE, FALSE, FALSE, cache, now,
                              r.calls, r.sleeps)
        /\ UNCHANGED <<config, prompts, sources_in_use, cache, files, now>>
        /\ UNCHANGED concurrency

NextOpenAI ==
    \E prompt_id \in OpenAIIds, version \in OpenAIVersionChoices,
       network \in OpenAINetworkChoices :
          OpenAISourceGet(prompt_id, version, network)

SpecOpenAI == InitOpenAI /\ [][NextOpenAI]_vars

\* the prompt "a" as it can be configured with the Manager: Remote API with
\* and without a prompt_id, Filesystem with a path and with a prompt_id only
ConfiguredPromptChoices ==
    { PromptConfig("a", "openai", SourceConfig(Some("pm1"), None, None), None),
      PromptConfig("a", "openai", SourceConfig(None, None, None), None),
      PromptConfig("a", "local", SourceConfig(None, None, Some("f1.txt")), None),
      PromptConfig("a", "local", SourceConfig(Some("f2.txt"), None, None), None) }

\* configurations with or without an API key, a prompts directory and a
\* configured prompt, that do not validate on startup
ConfiguredChoices ==
    { [ManagerConfig(TRUE, 2, api_key, prompts_dir)
          EXCEPT !.validate_on_startup = "none", !.prompts = ps] :
        api_key \in {None, Some("sk")}, prompts_dir \in {None, Some(PromptsDir)},
        ps \in {<< >>} \cup {"a" :> pc : pc \in ConfiguredPromptChoices} }

\* PromptManager.__init__ on such a configuration: the registry holds the
\* configured prompts
InitConfigured ==
    /\ config \in ConfiguredChoices
    /\ prompts = config.prompts
    /\ sources_in_use = {config.prompts[n].source : n \in DOMAIN config.prompts}
    /\ sources = << >>
    /\ cache = << >>
    /\ files = InitialFiles
    /\ now = 0
    /\ last = NoCall
    /\ threads = NoThreads
    /\ locks = NoLocks
    /\ constructed = NoneConstructed

\* validation in every mode, registrations of a second prompt
NextConfigured ==
    \/ \E source \in SourceTypes :
          \E source_config \in ValidateSourceConfigChoices(source) :
             RegisterPrompt("b", source, source_config, None, TRUE)
    \/ \E mode \in ModeChoices, network \in NetworkChoices :
          Validate(mode, [n \in ValidateNames |-> network])

SpecConfigured == InitConfigured /\ [][NextConfigured]_vars

\* what the network does during one fetch of a thread
ThreadNetworkChoices == { <<"ok", "ok", "ok">>, <<"rate limit", "ok", "ok">> }

\* the modes the threads validate in
ThreadModeChoices == {"env_only", "load_test"}

\* the entries the threads register under the new name "b"
ThreadRegisterChoices ==
    { PromptConfig("b", "local", SourceConfig(Some("f2.txt"), None, None), None),
      PromptConfig("b", "openai", SourceConfig(Some("pm1"), None, None), None) }

\* A Manager on which "a" has been registered, Filesystem or Remote API, and
\* two threads that call it at the same time.
InitThreads ==
    /\ config = ManagerConfig(TRUE, 2, Some("sk"), Some(PromptsDir))
    /\ \E source \in SourceTypes :
          LET r == RegistryRegisterResult(<< >>, {},
                       PromptConfig("a", source,
                           IF source = "local"
                           THEN SourceConfig(None, None, Some("f1.txt"))
                           ELSE SourceConfig(Some("pm1"), None, None), None),
                       FALSE)
          IN  prompts = r.prompts /\ sources_in_use = r.sources_in_use
    /\ sources = << >>
    /\ cache = << >>
    /\ files = InitialFiles
    /\ now = 0
    /\ last = NoCall
    /\ threads = NoThreads
    /\ locks = NoLocks
    /\ constructed = NoneConstructed

NextThreads ==
    \E t \in Threads :
       \/ \E network \in ThreadNetworkChoices : Begin(t, "get", "a", None, network)
       \/ Begin(t, "clear_cache", "", None, << >>)
       \/ \E prompt_config \in ThreadRegisterChoices :
             Begin(t, "register", "b", Some(prompt_config), << >>)
       \/ Begin(t, "register_prompt", "b",
                Some(PromptConfig("b", "local",
                         SourceConfig(Some("f2.txt"), None, None), None)), << >>)
       \/ \E mode \in ThreadModeChoices :
             Begin(t, "validate", "", Some(mode), <<"ok", "ok", "ok">>)
       \/ GetCachedLock(t)
       \/ CacheRead(t)
       \/ RegistryGetLock(t)
       \/ RegistryGet(t)
       \/ GetSourceLock(t)
       \/ GetSourceCheck(t)
       \/ GetSourceCreate(t)
       \/ GetSourceReturn(t)
       \/ FetchSleep(t)
       \/ FetchDone(t)
       \/ ExistsDone(t)
       \/ ValidatePromptsLock(t)
       \/ ValidatePromptsBody(t)
       \/ ListPromptsLock(t)
       \/ ListPromptsBody(t)
       \/ NextPrompt(t)
       \/ CacheStoreLock(t)
       \/ CacheStore(t)
       \/ ClearCacheLock(t)
       \/ ClearCacheBody(t)
       \/ RegisterLock(t)
       \/ RegisterCheck(t)
       \/ RegisterWrite(t)

SpecThreads == InitThreads /\ [][NextThreads]_vars

\* ------------------------------------------------------------ properties
\* this step is a call get_prompt(name, version, variables, default)
IsGet(name, version, variables, default) ==
    \E network \in NetworkChoices :
        GetPrompt(name, version, variables, default, None, network)

\* C1: get(name, default=D) without variables, for a name that is not in the
\* registry, returns exactly D and raises nothing, whatever was cached for
\* that name before.
C1_DefaultForUnregistered ==
    [][\A name \in Names, version \in VersionChoices :
          (name \notin DOMAIN prompts
             /\ IsGet(name, version, NoVariables, Some(DefaultText)))
          => (last'.status = "ok" /\ last'.value = DefaultText)]_vars


\* C2: get(name) without a default, for a name that is not in the registry,
\* fails with PromptNotRegisteredError and never returns text.
C2_UnregisteredRaises ==
    [][\A name \in Names, version \in VersionChoices, variables \in VariableChoices :
          (name \notin DOMAIN prompts /\ IsGet(name, version, variables, None))
          => last'.status = "PromptNotRegisteredError"]_vars

\* the TTL the data model gives a prompt: its own cache_ttl when set,
\* otherwise the manager default
EffectiveTtl(prompt_config, cfg) ==
    IF prompt_config.cache_ttl = None THEN cfg.cache_ttl
    ELSE prompt_config.cache_ttl[1]

\* C3: with caching enabled and a positive effective TTL, a get(name) that
\* follows a successful get(name) of the same version within the TTL window,
\* with no other call in between, returns the same content, and the adapter
\* is not fetched from by both calls.
C3_SecondGetWithinTtlIsServed ==
    [][\A version \in VersionChoices :
          ( /\ config.cache_enabled
            /\ "a" \in DOMAIN prompts
            /\ EffectiveTtl(prompts["a"], config) > 0
            /\ last.op = "get" /\ last.status = "ok"
            /\ last.version = CacheKey("a", version)[2]
            /\ now - last.time <= EffectiveTtl(prompts["a"], config)
            /\ IsGet("a", version, NoVariables, None) )
          => ( /\ last'.status = "ok" /\ last'.value = last.value
               /\ ~(last.fetched /\ last'.fetched) )]_vars

\* C4: once more than the prompt's (positive) effective TTL has elapsed
\* since a cache entry was stored, the next get(name) does not serve the
\* entry and fetches from the adapter again.
C4_ExpiredEntryIsRefetched ==
    [][\A version \in VersionChoices :
          ( /\ "a" \in DOMAIN prompts
            /\ CacheKey("a", version) \in DOMAIN cache
            /\ EffectiveTtl(prompts["a"], config) > 0
            /\ now - cache[CacheKey("a", version)].timestamp
                   > EffectiveTtl(prompts["a"], config)
            /\ IsGet("a", version, NoVariables, None) )
          => (last'.fetched /\ ~last'.hit)]_vars

\* the text of the file a Filesystem prompt's configuration names
RawPath(prompt_config, name) ==
    ResolveFilePath(ExtensionOrder, config.prompts_dir, files,
                    RetrievalParams(prompt_config, name, None, NoVariables, None).prompt_id,
                    None, prompt_config.source_config.path)

\* C5: the Manager cache holds the raw text: for a Filesystem prompt, with
\* caching enabled and a positive TTL, a get(name, variables=V2) that follows
\* a successful get(name, ...) within the TTL returns the raw file content
\* substituted with V2.
C5_CachedTextIsRaw ==
    [][\A name \in Names, variables \in VariableChoices :
          ( /\ config.cache_enabled
            /\ name \in DOMAIN prompts
            /\ prompts[name].source = "local"
            /\ EffectiveTtl(prompts[name], config) > 0
            /\ now - last.time <= EffectiveTtl(prompts[name], config)
            /\ RawPath(prompts[name], name) \in DOMAIN files
            /\ last.op = "get" /\ last.name = name /\ last.status = "ok"
            /\ IsGet(name, None, variables, None) )
          => ( /\ last'.status = "ok"
               /\ last'.value =
                    ApplyVariables(files[RawPath(prompts[name], name)].text, variables) )]_vars

\* C6: a prompt registered with cache_ttl = 0, under a manager whose cache
\* is enabled with a positive default TTL, is fetched from the adapter by
\* every get(name).
C6_PromptTtlZeroNeverServed ==
    [][\A version \in VersionChoices, default \in DefaultChoices :
          ( /\ config.cache_enabled /\ config.cache_ttl > 0
            /\ "a" \in DOMAIN prompts
            /\ prompts["a"].cache_ttl = Some(0)
            /\ IsGet("a", version, NoVariables, default) )
          => (last'.fetched /\ ~last'.hit)]_vars

\* C7: with the manager-wide cache_ttl at 0 every get(name) of a registered
\* prompt fetches from the adapter, whatever cache_ttl the prompt declares.
C7_ManagerTtlZeroNeverServed ==
    [][\A version \in VersionChoices, default \in DefaultChoices :
          ( /\ config.cache_ttl = 0
            /\ "a" \in DOMAIN prompts
            /\ IsGet("a", version, NoVariables, default) )
          => (last'.fetched /\ ~last'.hit)]_vars

\* C8: the get(name) that follows clear_cache(), for a registered name,
\* invokes the adapter fetch and is not served from the Manager cache.
C8_ClearCacheForcesFetch ==
    [][\A name \in Names, variables \in VariableChoices, default \in DefaultChoices :
          ( /\ last.op = "clear_cache"
            /\ name \in DOMAIN prompts
            /\ IsGet(name, None, variables, default) )
          => (last'.fetched /\ ~last'.hit)]_vars

\* a get of a registered name right after the clear_cache that dropped the
\* entry of its key: the adapter was fetched from and the entry is back
C8_Witness ==
    /\ last.op = "get" /\ last.prev.op = "clear_cache"
    /\ CacheKey(last.name, None) \in last.prev.dropped
    /\ last.name \in DOMAIN prompts
    /\ last.fetched /\ last.status = "ok"
    /\ CacheKey(last.name, None) \in DOMAIN cache

\* C9: register_prompt for a name that is already registered, without
\* overwrite, fails with PromptAlreadyRegisteredError and leaves the
\* registry entry unchanged.
C9_DuplicateRaisesAlreadyRegistered ==
    [][\A name \in Names, source \in SourceTypes :
          \A source_config \in SourceConfigChoices(source) :
             ( /\ name \in DOMAIN prompts
               /\ RegisterPrompt(name, source, source_config, None, FALSE) )
             => ( /\ last'.status = "PromptAlreadyRegisteredError"
                  /\ prompts' = prompts )]_vars

\* what source.get_prompt returns now for the registered configuration of
\* name, as get_prompt hands it to the caller
FetchedNow(name, variables, network) ==
    LET prompt_config == prompts[name]
        srcs == GetSource(sources, config, prompt_config.source)
        fetch == SourceGetPrompt(srcs[prompt_config.source], prompt_config.source,
                     files, RetrievalParams(prompt_config, name, None, variables, None),
                     network)
    IN  IF fetch.result.status = "ok"
        THEN Return(Some(fetch.result.value), variables)
        ELSE fetch.result

\* C10: the get(name) that follows a register_prompt(name, ...,
\* overwrite=true) which replaced an entry returns the content fetched
\* under the new entry's source configuration.
C10_GetAfterOverwriteUsesNewEntry ==
    [][\A name \in Names, variables \in VariableChoices, network \in NetworkChoices :
          ( /\ last.op = "register_prompt" /\ last.replaced /\ last.name = name
            /\ GetPrompt(name, None, variables, None, None, network) )
          => ( /\ last'.status = FetchedNow(name, variables, network).status
               /\ last'.value = FetchedNow(name, variables, network).value )]_vars

\* the content a get_prompt call selects before any substitution: the
\* Manager cache entry on a hit, else what the adapter returns when it is
\* given no variables, else the default (None when the call has no content)
SelectedContent(name, variables, default, network) ==
    LET cached == GetCached(config, cache, CacheKey(name, None), now)
        srcs == GetSource(sources, config, prompts[name].source)
        fetch == SourceGetPrompt(srcs[prompts[name].source], prompts[name].source,
                     files, RetrievalParams(prompts[name], name, None, NoVariables, None),
                     network)
    IN  IF cached.content # None THEN cached.content
        ELSE IF name \in DOMAIN prompts /\ fetch.result.status = "ok"
             THEN Some(fetch.result.value)
        ELSE default

\* C11: substitution in get is all-or-nothing: when the variable mapping
\* supplies every key the selected content references, every slot is replaced
\* by its value; when a referenced key is missing (an empty mapping included)
\* the content is returned unchanged; no error is raised either way.
C11_SubstitutionAllOrNothing ==
    [][\A variables \in PlainVariableChoices, default \in TemplateDefaultChoices,
          network \in NetworkChoices :
          ( /\ GetPrompt("a", None, variables, default, None, network)
            /\ SelectedContent("a", variables, default, network) # None )
          => LET content == SelectedContent("a", variables, default, network)[1]
             IN  /\ last'.status = "ok"
                 /\ last'.value =
                       IF FieldKeys(content) \subseteq DOMAIN variables
                       THEN Substitute(content, variables)
                       ELSE content]_vars

\* a fetch of the two-key file returned it with both slots filled
C11_Witness ==
    /\ last.op = "get" /\ last.fetched /\ last.status = "ok"
    /\ last.value = <<"Hi ", "A", " ", "B">>

\* C12: with an attempt budget of at least 3, a Remote API fetch whose first
\* two attempts fail with rate-limit errors and whose third attempt succeeds
\* returns the third attempt's content, raises nothing, and sleeps 1 second
\* and then 2 seconds between the attempts.
C12_RateLimitedTwiceThenServed ==
    [][\A default \in DefaultChoices :
          ( /\ config.openai_max_retries >= 3
            /\ GetPrompt("a", None, NoVariables, default, None, RateLimitedTwice)
            /\ last'.calls > 0 )
          => ( /\ last'.status = "ok"
               /\ last'.value = RemoteText("pm1", None)
               /\ last'.calls = 3
               /\ last'.sleeps = <<1, 2>> )]_vars

\* a get returned the remote content after two backoff sleeps of 1 and 2
C12_Witness ==
    /\ last.op = "get" /\ last.status = "ok" /\ last.calls = 3
    /\ last.sleeps = <<1, 2>>
    /\ last.value = RemoteText("pm1", None)

\* C13: for a prompt registered with the Remote API source while no API key
\* is configured, the first get(name) without a default fails with a
\* SourceConnectionError that is not a ConfigurationError.
C13_MissingCredentialsIsSourceConnection ==
    [][\A name \in Names, variables \in VariableChoices, network \in NetworkChoices :
          ( /\ name \in DOMAIN prompts
            /\ prompts[name].source = "openai"
            /\ config.openai_api_key = None
            /\ CacheKey(name, None) \notin DOMAIN cache
            /\ GetPrompt(name, None, variables, None, None, network) )
          => ( /\ IsInstance(last'.status, "SourceConnectionError")
               /\ ~IsInstance(last'.status, "ConfigurationError") )]_vars

\* C14: when the adapter fetch or the adapter setup fails during a get of a
\* registered name, a call that was given a default D returns D and raises
\* nothing, and a call without a default raises exactly the adapter's error.
C14_FetchFailureDefaultOrPropagate ==
    [][\A name \in Names, variables \in VariableChoices,
          default \in DefaultChoices, network \in NetworkChoices :
          ( /\ name \in DOMAIN prompts
            /\ last'.fetched
            /\ GetPrompt(name, None, variables, default, None, network)
            /\ FetchedNow(name, variables, network).status \notin {"ok", "none"} )
          => IF default = None
             THEN last'.status = FetchedNow(name, variables, network).status
             ELSE last'.status = "ok" /\ last'.value = default[1]]_vars

\* a get of a registered name whose fetch failed returned the default
C14_Witness ==
    /\ last.op = "get" /\ last.fetched /\ last.name \in DOMAIN prompts
    /\ last.status = "ok" /\ last.value = DefaultText

\* C15: after any sequence of register (with or without overwrite), remove
\* and clear operations, get_sources_in_use() is exactly the set of the
\* source types of the entries the registry holds.
C15_SourcesInUseMatchEntries ==
    sources_in_use = {prompts[n].source : n \in DOMAIN prompts}

\* this step is a call validate(mode)
IsValidate(mode) ==
    \E networks \in [ValidateNames -> NetworkChoices] : Validate(mode, networks)

\* C16: validate(ValidationMode.NONE) is a no-op whatever the registry
\* holds: it raises nothing, checks no prompt and changes no state.
C16_ValidateNoneIsNoOp ==
    [][IsValidate(Some("none"))
          => ( /\ last'.status = "ok"
               /\ last'.checked = {} /\ last'.named = {}
               /\ UNCHANGED <<config, prompts, sources_in_use, sources,
                              cache, files, now>> )]_vars

\* the existence check of name is bound to fail: its file is missing, the
\* Remote API has no API key, or no Remote API prompt is found by the
\* network and the adapter has cached none
MustFail(name, networks) ==
    LET prompt_id == IF prompts[name].source_config.prompt_id # None
                     THEN prompts[name].source_config.prompt_id[1] ELSE name
    IN  IF prompts[name].source = "local"
        THEN ResolveFilePath(ExtensionOrder, config.prompts_dir, files, prompt_id,
                             prompts[name].source_config.version, None)
                 \notin DOMAIN files
        ELSE \/ ~Truthy(config.openai_api_key)
             \/ /\ \A n \in DOMAIN prompts :
                       prompts[n].source = "openai" => networks[n][1] = "not found"
                /\ ("openai" \in DOMAIN sources => sources["openai"].cache = << >>)

\* what C17 asks of a validate call that has returned
LoadTestAggregates(networks) ==
    /\ last'.checked = DOMAIN prompts
    /\ \A name \in DOMAIN prompts : MustFail(name, networks) => name \in last'.named
    /\ last'.named \subseteq DOMAIN prompts
    /\ last'.status = IF last'.named # {} THEN "ValidationError" ELSE "ok"

InFetch(t) == threads[t].pc \in {"fetching", "sleeping"}

\* the next step of the call thread u is in
ThreadStep(u) ==
    \/ GetCachedLock(u) \/ CacheRead(u) \/ RegistryGetLock(u) \/ RegistryGet(u)
    \/ GetSourceLock(u) \/ GetSourceCheck(u) \/ GetSourceCreate(u)
    \/ GetSourceReturn(u) \/ FetchSleep(u) \/ FetchDone(u) \/ ExistsDone(u)
    \/ ValidatePromptsLock(u) \/ ValidatePromptsBody(u) \/ ListPromptsLock(u)
    \/ ListPromptsBody(u) \/ NextPrompt(u)
    \/ CacheStoreLock(u) \/ CacheStore(u) \/ ClearCacheLock(u)
    \/ ClearCacheBody(u) \/ RegisterLock(u) \/ RegisterCheck(u)
    \/ RegisterWrite(u)

\* C18: a thread that is inside a source adapter fetch, asleep in a backoff
\* included, holds neither the Manager lock nor the Registry lock, and the
\* call the other thread is in (a get served by the cache, a clear_cache, a
\* register_prompt) can take its next step.
C18_FetchHoldsNoLock ==
    \A t \in Threads :
        InFetch(t)
        => ( /\ locks.manager.owner # t
             /\ locks.registry.owner # t
             /\ threads[Other(t)].pc # "idle" => ENABLED ThreadStep(Other(t)) )

\* one thread sleeps in a backoff while the other, under the Manager lock,
\* is about to be served by the cache
C18_Witness ==
    \E t \in Threads :
        /\ threads[t].pc = "sleeping"
        /\ threads[Other(t)].pc = "cache_read"
        /\ locks.manager.owner = Other(t)
        /\ CacheKey("a", None) \in DOMAIN cache

\* C19: under any interleaving of concurrent calls the Manager constructs at
\* most one adapter per source type, constructs it only in a get that has
\* missed the cache, or in a LoadTest validation, for a prompt registered
\* with that type, and keeps it from then on.
C19_OneAdapterPerSourceType ==
    /\ [](\A s \in SourceTypes :
            /\ constructed[s] <= 1
            /\ s \in DOMAIN sources <=> constructed[s] = 1)
    /\ [][ /\ \A s \in DOMAIN sources : s \in DOMAIN sources'
           /\ constructed' # constructed
              => \E t \in Threads :
                    /\ \/ threads[t].op = "get"
                       \/ threads[t].op = "validate"
                          /\ threads[t].arg = Some("load_test")
                    /\ threads[t].pc = "source_create"
                    /\ threads[t].pcfg = Some(prompts[threads[t].name])
                    /\ threads[t].pcfg[1].source \notin DOMAIN sources
                    /\ constructed' = [constructed EXCEPT
                                          ![threads[t].pcfg[1].source] = 1] ]_vars

\* a get and a LoadTest validation are both in _get_source for the one
\* adapter that was constructed
C19_Witness ==
    \E t \in Threads, s \in SourceTypes :
        /\ constructed[s] = 1
        /\ threads[t].pc = "source_return" /\ threads[t].pcfg[1].source = s
        /\ threads[Other(t)].pc = "source_lock"
        /\ threads[Other(t)].pcfg[1].source = s
        /\ {threads[t].op, threads[Other(t)].op} = {"get", "validate"}

\* the registration i of thread t and the registration of the other thread
\* that was in progress when it began, both Registry.register calls for a
\* name that was not registered, have both returned
RacedRegistrations(t, i) ==
    /\ i \in DOMAIN threads[t].log
    /\ threads[t].log[i].op = "register"
    /\ threads[t].log[i].fresh
    /\ threads[t].log[i].rival \in DOMAIN threads[Other(t)].log
    /\ threads[Other(t)].log[threads[t].log[i].rival].op = "register"

\* C20: when two threads call register at the same time for the same new
\* name without overwrite, exactly one call succeeds, the other raises
\* PromptAlreadyRegisteredError, and the registry holds the entry of the
\* call that succeeded.
C20_ConcurrentRegisterOneWins ==
    \A t \in Threads, i \in 1..MaxOps :
        RacedRegistrations(t, i)
        => LET mine == threads[t].log[i]
               theirs == threads[Other(t)].log[mine.rival]
               won == IF mine.status = "ok" THEN mine ELSE theirs
           IN  /\ {mine.status, theirs.status} = {"ok", "PromptAlreadyRegisteredError"}
               /\ mine.name \in DOMAIN prompts
               /\ prompts[mine.name] = won.arg[1]

\* two overlapping registrations of different entries have both returned
C20_Witness ==
    \E t \in Threads, i \in 1..MaxOps :
        /\ RacedRegistrations(t, i)
        /\ threads[t].log[i].arg # threads[Other(t)].log[threads[t].log[i].rival].arg
        /\ threads[t].log[i].status = "PromptAlreadyRegisteredError"

\* C21: no reachable registry holds an entry whose name is the empty
\* string: PromptConfig and register_prompt reject an empty name.
C21_NoEmptyName == "" \notin DOMAIN prompts

\* this step is a call registry.register(PromptConfig(name, ...), overwrite)
IsRegistryRegister(name, overwrite) ==
    \E source \in SourceTypes :
        RegistryRegister(name, source, RegistryEntryChoice(source), None, overwrite)

\* C25: a Registry operation that fails leaves the registry as it was:
\* register of a registered name without overwrite raises
\* PromptAlreadyRegisteredError, get and remove of a name that is not
\* registered raise PromptNotRegisteredError, and in each case _prompts and
\* _sources_in_use are what they were before the call.
C25_FailedRegistryCallChangesNothing ==
    [][\A name \in RegistryNames :
          /\ (name \in DOMAIN prompts /\ IsRegistryRegister(name, FALSE))
             => ( /\ last'.status = "PromptAlreadyRegisteredError"
                  /\ prompts' = prompts /\ sources_in_use' = sources_in_use )
          /\ (name \notin DOMAIN prompts /\ RegistryGetEntry(name))
             => ( /\ last'.status = "PromptNotRegisteredError"
                  /\ prompts' = prompts /\ sources_in_use' = sources_in_use )
          /\ (name \notin DOMAIN prompts /\ RegistryRemove(name))
             => ( /\ last'.status = "PromptNotRegisteredError"
                  /\ prompts' = prompts /\ sources_in_use' = sources_in_use )]_vars

\* a register without overwrite was refused by a registry that holds only
\* Filesystem entries
C25_Witness ==
    /\ last.op = "registry.register"
    /\ last.status = "PromptAlreadyRegisteredError"
    /\ last.name \in DOMAIN prompts
    /\ sources_in_use = {"local"}

\* C22: substitution in one get is single-pass: for the Filesystem prompt
\* "Hi {x}" and the variables {x: "{y}", y: "Z"} the call returns "Hi {y}",
\* whether the Manager cache serves it or not.
C22_SubstitutionIsSinglePass ==
    [][\A default \in DefaultChoices :
          ( /\ "a" \in DOMAIN prompts
            /\ GetPrompt("a", None, NestedVariables, default, None,
                         <<"ok", "ok", "ok">>) )
          => ( /\ last'.status = "ok"
               /\ last'.value = <<"Hi ", "{y}">> )]_vars

\* the network of a fetch whose attempts did what the last call's did
NetworkOf(attempts) ==
    [i \in 1..MaxRetries |-> IF i <= Len(attempts) THEN attempts[i] ELSE "ok"]

\* the step is a get_prompt("a") without default that reached the retry loop
IsRetriedGet ==
    /\ last'.op = "get" /\ last'.fetched /\ last'.calls > 0
    /\ GetPrompt("a", None, NoVariables, None, None, NetworkOf(last'.attempts))

\* C23: one Remote API get_prompt makes at most max_retries network calls;
\* a not-found failure ends it at that attempt with PromptNotFoundError; when
\* the budget is exhausted the error is the class of the last attempt's
\* failure: OpenAIRateLimitError, OpenAITimeoutError, or PromptRetrievalError
\* wrapping the last attempt's exception.
C23_RetryBudgetAndSurfacedError ==
    [][IsRetriedGet
          => LET n == last'.attempts
                 k == last'.calls
             IN  /\ k <= config.openai_max_retries
                 /\ k = Len(n)
                 /\ \A i \in 1..k :
                       n[i] = "not found"
                       => (i = k /\ last'.status = "PromptNotFoundError")
                 /\ (k = config.openai_max_retries /\ n[k] = "rate limit")
                       => last'.status = "OpenAIRateLimitError"
                 /\ (k = config.openai_max_retries /\ n[k] = "timeout")
                       => last'.status = "OpenAITimeoutError"
                 /\ (k = config.openai_max_retries /\ n[k] = "error")
                       => ( /\ last'.status = "PromptRetrievalError"
                            /\ last'.cause = k )]_vars

\* a fetch used its three attempts on a timeout and two generic failures
C23_Witness ==
    /\ last.op = "get" /\ config.openai_max_retries = 3
    /\ last.attempts = <<"timeout", "error", "error">>
    /\ last.status = "PromptRetrievalError"

\* the sleeps the backoff rule gives for the attempts of a fetch: 2^k after
\* a rate-limit failure on the 0-based attempt k that is not the last one
RECURSIVE BackoffSleeps(_, _)
BackoffSleeps(attempts, k) ==
    IF k + 1 >= Len(attempts) THEN << >>
    ELSE (IF attempts[k + 1] = "rate limit" THEN <<Pow2(k)>> ELSE << >>)
         \o BackoffSleeps(attempts, k + 1)

\* C24: in the retry loop a rate-limit failure on the 0-based attempt k that
\* is not the last attempt is followed by a sleep of 2^k seconds; timeouts
\* and generic failures are retried without any sleep; nothing is slept
\* after the last attempt.
C24_OnlyRateLimitsSleep ==
    [][IsRetriedGet => last'.sleeps = BackoffSleeps(last'.attempts, 0)]_vars

\* C26: validate(ENV_ONLY) constructs no adapter and makes no adapter call;
\* it raises ValidationError exactly when no source is configured, or a
\* configured Remote API prompt lacks the API key, or a Remote API prompt
\* (configured or registered) lacks a prompt_id; it changes neither the
\* cache nor the registry.
C26_EnvOnlyChecksConfigurationOnly ==
    [][IsValidate(Some("env_only"))
          => ( /\ sources' = sources
               /\ last'.checked = {} /\ last'.calls = 0
               /\ cache' = cache
               /\ prompts' = prompts /\ sources_in_use' = sources_in_use
               /\ last'.status = "ValidationError"
                  <=> \/ ~(Truthy(config.openai_api_key) \/ Truthy(config.prompts_dir))
                      \/ \E n \in DOMAIN config.prompts :
                            /\ config.prompts[n].source = "openai"
                            /\ \/ ~Truthy(config.openai_api_key)
                               \/ config.prompts[n].source_config.prompt_id = None
                      \/ \E n \in DOMAIN prompts :
                            /\ prompts[n].source = "openai"
                            /\ prompts[n].source_config.prompt_id = None
               /\ last'.status \in {"ok", "ValidationError"} )]_vars

\* C27: a path override is the resolved path whatever the identifier and
\* the version; otherwise an absolute identifier is used as it is and a
\* relative one is joined to the base directory, and then, with a version,
\* <stem>.<version><ext> is chosen when it exists, else <version>/<name>
\* when it exists, else the unversioned path (the path itself, or for a
\* path without extension one with a supported extension).
C27_ResolutionPriority ==
    [][\A prompt_id \in ResolveIds, version \in VersionChoices,
          override_path \in {None, Some("f2.txt")} :
          LocalResolveFilePath(prompt_id, version, override_path)
          => LET base_dir == sources["local"].base_dir
                 joined == IF Path(prompt_id).abs THEN Path(prompt_id)
                           ELSE IF base_dir # None
                                THEN Abs(base_dir[1], Path(prompt_id))
                                ELSE Abs(CwdDir, Path(prompt_id))
                 named == [joined EXCEPT !.stem = joined.stem \o version]
                 in_dir == [joined EXCEPT !.dir = joined.dir \o version]
                 got == last'.value[1]
             IN  IF override_path # None
                 THEN got = ResolveAgainst(base_dir, Path("f2.txt"))
                 ELSE IF version # None /\ named \in DOMAIN files
                      THEN got = named
                 ELSE IF version # None /\ in_dir \in DOMAIN files
                      THEN got = in_dir
                 ELSE IF joined.suffix # "" THEN got = joined
                 ELSE \/ got = joined
                      \/ \E ext \in SUPPORTED_EXTENSIONS :
                            got = [joined EXCEPT !.suffix = ext]]_vars

\* a version given, no versioned name, the file of the version directory
C27_Witness ==
    /\ last.op = "local.resolve" /\ last.name = "f1.txt" /\ last.version = "v2"
    /\ Abs(PromptsDir, Rel(<<"f1", "v2">>, ".txt")) \notin DOMAIN files
    /\ last.value = Some(Abs(PromptsDir \o <<"v2">>, Path("f1.txt")))

\* C28: for a path without extension the adapter selects the first existing
\* file in the order .txt, .text, .json, .yaml, .yml, so the same files
\* always give the same selection and plain text wins over .json.
C28_FixedExtensionOrder ==
    [][LocalResolveFilePath("f3", None, None)
          => last'.value[1] =
                FirstExisting(files,
                              ResolveAgainst(sources["local"].base_dir, Path("f3")),
                              ExtensionOrder)]_vars

\* C29: a get_prompt whose "id:version-or-latest" is in the adapter-local
\* cache returns the cached text without a network call; no get_prompt
\* removes or replaces an entry; a successful get_prompt leaves the text it
\* returned under its key and a failed one leaves the cache as it was.
C29_AdapterCacheKeepsFetchedText ==
    [][\A prompt_id \in OpenAIIds, version \in OpenAIVersionChoices,
          network \in OpenAINetworkChoices :
          OpenAISourceGet(prompt_id, version, network)
          => LET key == prompt_id \o ":" \o (IF version = None THEN "latest"
                                             ELSE version[1])
                 before == sources["openai"].cache
                 after == sources'["openai"].cache
             IN  /\ key \in DOMAIN before
                       => ( /\ last'.status = "ok" /\ last'.value = before[key]
                            /\ last'.calls = 0 )
                 /\ \A k \in DOMAIN before :
                       k \in DOMAIN after /\ after[k] = before[k]
                 /\ last'.status = "ok"
                       => (key \in DOMAIN after /\ after[key] = last'.value)
                 /\ last'.status # "ok" => after = before]_vars

\* a get_prompt served from the adapter-local cache
C29_Witness ==
    /\ last.op = "openai.get" /\ last.status = "ok" /\ last.calls = 0
    /\ last.name = "pm1" /\ last.version = "latest"
    /\ "pm1:latest" \in DOMAIN sources["openai"].cache

\* C30: with auto_reload, a get_prompt for a cached path whose file has the
\* modification time it had when it was cached returns the cached content
\* and does not read the file; when the file has a later modification time
\* the entry is discarded and the file is read again.
C30_AutoReloadReusesUnchangedFile ==
    [][\A prompt_id \in ReloadIds,
          variables \in {NoVariables, [k \in {"x"} |-> <<"A">>]} :
          LET src == sources["local"]
              file_path == Abs(PromptsDir, Path(prompt_id))
          IN  ( /\ LocalSourceGet(prompt_id, variables)
                /\ src.config.auto_reload
                /\ file_path \in DOMAIN src.cache )
              => IF files[file_path].mtime = src.file_mtimes[file_path]
                 THEN /\ last'.value = src.cache[file_path]
                      /\ last'.reads = 0
                 ELSE /\ last'.reads = 1
                      /\ last'.value =
                            (IF DOMAIN variables # {}
                             THEN SubstituteVariables(files[file_path].text, variables)
                             ELSE files[file_path].text)
                      /\ sources'["local"].cache[file_path] = last'.value]_vars

\* C31: on a cache miss get(name, version, path=...) calls the adapter with
\* the prompt_id of the entry's source_config when there is one and the
\* name otherwise, with the version of the call when one is given and the
\* configured version otherwise, and with the path of the call over the
\* configured path.
C31_AdapterCalledWithMergedParameters ==
    [][\A version \in VersionChoices, path \in {None, Some("f2.txt")} :
          ( /\ last'.fetched
            /\ GetPrompt("a", version, NoVariables, None, path, <<"ok", "ok", "ok">>) )
          => LET source_config == prompts["a"].source_config
             IN  last'.args =
                    Some([prompt_id |-> IF source_config.prompt_id # None
                                        THEN source_config.prompt_id[1] ELSE "a",
                          version |-> IF version # None THEN version
                                      ELSE source_config.version,
                          path |-> IF path # None THEN path
                                   ELSE source_config.path])]_vars

\* a fetch whose call gives a version and a path other than the configured
C31_Witness ==
    /\ last.op = "get" /\ last.fetched /\ last.version = "v2"
    /\ "a" \in DOMAIN prompts
    /\ prompts["a"].source_config = SourceConfig(None, Some("v2"), Some("f1.txt"))
    /\ last.args = Some([prompt_id |-> "a", version |-> Some("v2"),
                         path |-> Some("f2.txt")])

\* C40: content served from the Manager cache for get(name, version,
\* path=...) is what the adapter returns for the merged parameters of that
\* call.
C40_HitMatchesOwnParameters ==
    [][\A version \in VersionChoices, path \in {None, Some("f2.txt")} :
          ( /\ last'.hit
            /\ GetPrompt("a", version, NoVariables, None, path, <<"ok", "ok", "ok">>) )
          => last'.value =
                SourceGetPrompt(sources[prompts["a"].source], prompts["a"].source,
                                files,
                                RetrievalParams(prompts["a"], "a", version,
                                                NoVariables, path),
                                <<"ok", "ok", "ok">>).result.value]_vars

\* C32: a step removes or rewrites an entry of the Manager cache only when
\* it is a clear_cache or the get of that key that finds the entry expired;
\* when the fetch of that get fails the entry stays absent.
C32_EntriesLeaveOnlyByClearOrExpiry ==
    [][\A k \in DOMAIN cache :
          LET expired == /\ config.cache_ttl > 0
                         /\ now - cache[k].timestamp > config.cache_ttl
              found == /\ last'.op = "get" /\ k = <<last'.name, last'.version>>
                       /\ expired
          IN  /\ (k \notin DOMAIN cache' \/ cache'[k] # cache[k])
                    => (last'.op = "clear_cache" \/ found)
              /\ (found /\ last'.fetched /\ last'.status # "ok")
                    => k \notin DOMAIN cache']_vars

\* a get found its entry expired, removed it, and the fetch then failed
C32_Witness ==
    /\ last.op = "get" /\ last.fetched /\ last.status = "PromptNotFoundError"
    /\ last.dropped = {<<"a", "latest">>}
    /\ <<"a", "latest">> \notin DOMAIN cache

\* C33: with cache_enabled false the Manager cache is empty before and
\* after every step, and every get of a registered name invokes
\* source.get_prompt.
C33_DisabledCacheStaysEmpty ==
    [][~config.cache_enabled
          => ( /\ cache = << >> /\ cache' = << >>
               /\ \A variables \in PlainVariableChoices,
                     default \in TemplateDefaultChoices :
                     ( /\ "a" \in DOMAIN prompts
                       /\ IsGet("a", None, variables, default) )
                     => (last'.fetched /\ ~last'.hit) )]_vars

\* with the cache disabled, a get that fetched right after a get that
\* returned the same prompt
C33_Witness ==
    /\ ~config.cache_enabled /\ cache = << >>
    /\ last.op = "get" /\ last.fetched /\ last.status = "ok"
    /\ last.prev.op = "get" /\ "local" \in DOMAIN sources
    /\ sources["local"].cache # << >>

\* C34: with caching enabled and a Manager cache_ttl of 0, a get whose key
\* is in the Manager cache is a hit that returns the entry and leaves the
\* cache as it is, however old the entry.
C34_ManagerTtlZeroNeverExpires ==
    [][(config.cache_enabled /\ config.cache_ttl = 0)
          => \A version \in VersionChoices, default \in DefaultChoices :
                ( /\ CacheKey("a", version) \in DOMAIN cache
                  /\ GetPrompt("a", version, NoVariables, default, None,
                               <<"ok", "ok", "ok">>) )
                => ( /\ last'.hit /\ ~last'.fetched
                     /\ last'.status = "ok"
                     /\ Some(last'.value) = cache[CacheKey("a", version)].content
                     /\ cache' = cache )]_vars

\* a hit on an entry older than every cache_ttl in use
C34_Witness ==
    /\ config.cache_enabled /\ config.cache_ttl = 0
    /\ last.op = "get" /\ last.hit /\ last.version = "latest"
    /\ <<"a", "latest">> \in DOMAIN cache
    /\ last.time - cache[<<"a", "latest">>].timestamp > 3

\* C35: under any interleaving of first fetches on one adapter, initialize
\* runs only on an adapter on which it has not run to its end before, so it
\* succeeds at most once and never replaces a client.
C35_InitializeRunsOnce ==
    [][\A t \in Threads :
          RunInitialize(t) => ~HasRun(sources[TheSource], TheSource)]_vars

\* C36: a get with a default D that misses the cache and finds the name
\* unregistered, or whose fetch fails, returns D and writes nothing to the
\* Manager cache: the cache is what the lookup left, no entry holds D, and a
\* lookup of the same key right after is still a miss.
C36_DefaultIsNeverCached ==
    [][\A name \in Names, variables \in VariableChoices,
          network \in NetworkChoices :
          ( /\ last'.op = "get" /\ ~last'.hit
            /\ \/ name \notin DOMAIN prompts
               \/ FetchedNow(name, variables, network).status \notin {"ok", "none"}
            /\ GetPrompt(name, None, variables, Some(DefaultText), None, network) )
          => ( /\ last'.status = "ok"
               /\ last'.value = ApplyVariables(DefaultText, variables)
               /\ cache' = GetCached(config, cache, CacheKey(name, None), now).cache
               /\ \A k \in DOMAIN cache' : cache'[k].content # Some(DefaultText)
               /\ GetCached(config, cache', CacheKey(name, None), now').content
                     = None )]_vars

\* with caching enabled, a get of a registered name whose fetch failed
\* returned the default and left the cache without an entry
C36_Witness ==
    /\ config.cache_enabled
    /\ last.op = "get" /\ last.fetched /\ last.name \in DOMAIN prompts
    /\ last.status = "ok" /\ last.value = DefaultText
    /\ last.attempts # << >> /\ last.attempts[1] = "not found"
    /\ cache = << >>

\* C37: a Remote API get_prompt that completed, whatever max_retries is
\* configured, returned non-empty text or raised: the Manager get that made
\* the call never hands on an absent value.
C37_RemoteGetReturnsTextOrRaises ==
    (last.op = "get" /\ last.fetched)
       => ( /\ last.status # "none"
            /\ last.status = "ok" => last.value # << >> )

\* C38: when validate(load_test) names a Filesystem prompt that is
\* registered with a path as missing, the fetch get(name) makes in the same
\* state fails with PromptNotFoundError.
C38_LoadTestLooksUpWhatGetReads ==
    [][\A name \in ValidateNames :
          ( /\ last'.op = "validate" /\ name \in last'.named
            /\ name \in DOMAIN prompts
            /\ prompts[name].source_config.path # None
            /\ Validate(Some("load_test"),
                        [n \in ValidateNames |-> <<"ok", "ok", "ok">>]) )
          => FetchedNow(name, NoVariables, <<"ok", "ok", "ok">>).status
                = "PromptNotFoundError"]_vars

\* C39: a get whose fetch had begun when a concurrent clear_cache returned
\* never writes what it fetched to the Manager cache afterwards.
C39_ClearCacheNotUndone ==
    [][\A t \in Threads : CacheStore(t) => ~threads[t].cleared]_vars

====
